---- MODULE Spec2Model ----
(***************************************************************************)
(* Model of the monitoring bot "who": the polling scheduler of             *)
(* src/enhanced_monitor.py with the watch commands of src/enhanced_bot.py, *)
(* and the rate limiter of src/api_client.py.                              *)
(*                                                                         *)
(* The program runs on one asyncio event loop: a coroutine runs without    *)
(* interruption from one await that really suspends to the next.  The      *)
(* scheduler task is therefore modelled by its suspension points (pc), and *)
(* while it is between two of them (pc = "round") no other task moves.     *)
(***************************************************************************)
EXTENDS Integers, Sequences, FiniteSets, Bags, TLC

\* ------------------------------------------------------------------ bounds
MaxItems == 2        \* MonitorData objects ever created
MaxCmds  == 2        \* watch commands suspended in their status lookup
MaxLoops == 2        \* scheduler tasks that exist at a time

\* ------------------------------------------------------- program constants
MAX_CONSECUTIVE_ERRORS == 5

\* Config.RATE_LIMIT_REQUESTS_PER_MINUTE (its default) and RATE_LIMIT_BURST.
RATE_LIMIT_REQUESTS_PER_MINUTE == 30

RATE_LIMIT_BURST == 10

\* The length in seconds of the limiter's window and of its refill period.
Window == 60

\* Config.API_RETRY_ATTEMPTS, API_RETRY_DELAY and ERROR_COOLDOWN.
API_RETRY_ATTEMPTS == 3

API_RETRY_DELAY == 2

ERROR_COOLDOWN == 300

\* The limiters checked: requests_per_minute in 0..MaxRate, burst in
\* 0..MaxBurst, called by NCallers coroutines until the clock shows MaxTime.
MaxRate == 2

MaxBurst == 2

NCallers == 2

MaxTime == 125

\* The seconds that may pass while no caller is due.
Gaps == {20, 59}

\* The url managers checked: counters up to MaxSuccess successes and
\* MaxFailure failures per endpoint.
MaxSuccess == 2

MaxFailure == 4

\* Config.INSTAGRAM_API_URL, the pool's only endpoint when no list is given,
\* a second endpoint, and a url that is in no pool.
INSTAGRAM_API_URL == "A"

Pools == { <<INSTAGRAM_API_URL>>, <<INSTAGRAM_API_URL, "B">> }

ForeignUrl == "X"

\* The values of the strategy setting: the three get_next_url knows and one
\* it does not.
Strategies == {"round_robin", "random", "health_based", "weighted"}

\* The response times, in seconds, a successful request reports.
ResponseTimes == {0, 2}

\* The clients checked: RATE_LIMIT_REQUESTS_PER_MINUTE set to ClientRate in
\* the environment, lookups until the clock shows MaxClientTime.
ClientRate == 1

\* The rates of the clients checked: ClientRate, and the 0 that makes acquire
\* raise.
ClientRates == {0, ClientRate}

MaxClientTime == 600

\* Calls of get_instagram_profile in one behaviour.
MaxLookups == 3

\* The rotation strategies of the clients checked: the default of line 32
\* and round robin.
ClientStrategies == {"round_robin", "health_based"}

\* The seconds that may pass while a client is not due: one less than the
\* cooldown, and the cooldown.
ClientGaps == {ERROR_COOLDOWN - 1, ERROR_COOLDOWN}

\* What the network makes of a request: a 200 with a profile, a 200 without
\* one, a 200 whose body is not JSON, a 400, a 404, another status, or an
\* exception (timeout, client error).
Outcomes == {"profile", "no_profile", "bad_json", "http_400", "http_404",
             "http_500", "exception"}

\* MonitorData with the kind of the watch declared as "type".
MonitorDataFieldsTyped ==
    {"username", "type", "send_func", "start_time", "is_banned_state",
     "check_count", "last_known_data", "session_id", "consecutive_errors",
     "last_check_time"}

\* The fields the dataclass MonitorData declares.
MonitorDataFields ==
    {"username", "monitor_type", "send_func", "start_time", "is_banned_state",
     "check_count", "last_known_data", "session_id", "consecutive_errors",
     "last_check_time"}

\* The verdict of one profile lookup as the scheduler sees it in data['st']:
\* an Ok profile, a not-found verdict, or anything else (an error).
Results == {"ok", "not_found", "error"}

MonitorTypes == {"ban", "unban"}

\* ------------------------------------------------------------- identities
\* Handles are character sequences.  The command arguments the model issues:
\* one handle in three spellings.
RawNames == { <<"a">>, <<"A">>, <<" ", "@", "a">> }

Lower(c) == IF c = "A" THEN "a" ELSE IF c = "B" THEN "b" ELSE c

RECURSIVE LStrip(_)
LStrip(s) == IF s # <<>> /\ Head(s) = " " THEN LStrip(Tail(s)) ELSE s

RECURSIVE RStrip(_)
RStrip(s) ==
    IF s # <<>> /\ s[Len(s)] = " " THEN RStrip(SubSeq(s, 1, Len(s) - 1)) ELSE s

\* str.strip()
Strip(s) == LStrip(RStrip(s))

\* str.replace('@', '')
RemoveAt(s) == SelectSeq(s, LAMBDA c : c # "@")

\* The key the commands use for the registry: strip, drop the marker.
BotNormalize(raw) == RemoveAt(Strip(raw))

\* The identity the lookup is made for: drop the marker, strip, lowercase.
ApiNormalize(username) ==
    LET s == Strip(RemoveAt(username)) IN [i \in 1..Len(s) |-> Lower(s[i])]

Usernames == { BotNormalize(r) : r \in RawNames }

\* A watch command that passed the registry check: its key and its kind.
Commands == [username : Usernames, monitor_type : MonitorTypes]

\* ------------------------------------------------------------------ state
VARIABLES
    monitoring_tasks,         \* dict: username -> item (a function on its keys)
    monitor_queue,            \* list of items (indices into items)
    items,                    \* the MonitorData objects created so far
    is_sequential_running,    \* the scheduler's running flag
    sequential_monitor_task,  \* the task start_monitoring created last, 0 = None
    loops,                    \* the scheduler tasks, by slot
    cmds,                     \* bag of watch commands awaiting their status lookup
    alerts,                   \* per item: calls of send_func that completed
    session_ends,             \* per item: calls of end_monitoring_session for
                              \* its session
    removals,                 \* per item: times it was taken out of the queue
    value_error,              \* list.remove was called for an item not in the list
    observed,                 \* the item whose polls are recorded, 0 = none
    hist,                     \* how far the observed item's polls follow Scenario
    matched,                  \* a poll of the observed item saw the watched result
    last_poll                 \* the observed item's latest poll: the lookup's
                              \* verdict, and the item's fields before the poll

\* alerts, session_ends, removals and value_error record what the program did; observed,
\* hist, matched and last_poll record what it was given.  None of them is
\* read by an action of the program.
monVars == <<monitoring_tasks, monitor_queue, items, is_sequential_running,
             sequential_monitor_task, loops, cmds, alerts, session_ends, hist, matched,
             removals, value_error, observed, last_poll>>

\* The state of one RateLimiter and of the coroutines that call its acquire.
VARIABLES
    requests_per_minute,      \* RateLimiter.requests_per_minute
    burst,                    \* RateLimiter.burst
    requests,                 \* RateLimiter.requests: list of timestamps
    burst_tokens,             \* RateLimiter.burst_tokens
    last_refill,              \* RateLimiter.last_refill
    clock,                    \* time.time(), in seconds since the construction
    callers,                  \* per caller: idle, or asleep inside acquire
    admitted,                 \* times of the admissions of the last 60 s
    refill_admits,            \* admissions since the last refill
    raised                    \* an acquire call raised IndexError

\* clock and callers are the limiter's environment; admitted, refill_admits
\* and raised record what acquire did and are read by no action.
rlVars == <<requests_per_minute, burst, requests, burst_tokens, last_refill,
            clock, callers, admitted, refill_admits, raised>>

\* The state of one APIURLManager.
VARIABLES
    urls,                     \* APIURLManager.urls: the pool, a list
    strategy,                 \* APIURLManager.strategy
    current_index,            \* APIURLManager.current_index
    url_stats,                \* APIURLManager.url_stats: url -> its counters
    last_call,                \* the latest call of the manager: the method, its
                              \* url argument or, for get_next_url, its result,
                              \* and the endpoints that were active before it
    fail_streak               \* per endpoint: the mark_failure calls since its
                              \* latest mark_success

\* last_call and fail_streak record the calls and are read by no action.
urlVars == <<urls, strategy, current_index, url_stats, last_call, fail_streak>>

\* The state of one APIClient and of the lookup it is making.
VARIABLES
    consecutive_errors,       \* APIClient.consecutive_errors
    last_error_time,          \* APIClient.last_error_time, -1 = None
    graph_enabled,            \* the Graph API is configured (lines 397, 462)
    lookup,                   \* the get_instagram_profile call under way: where
                              \* it is, its attempt, the requests it has made
    response,                 \* what _make_request returned last
    result                    \* what get_instagram_profile returned last

clVars == <<consecutive_errors, last_error_time, graph_enabled, lookup,
            response, result>>

\* The state of the monitor's EnhancedProxyManager.
VARIABLES
    proxies,                  \* EnhancedProxyManager.proxies: the pool, a list
    current_proxy_index,      \* EnhancedProxyManager.current_proxy_index
    failed_proxies,           \* EnhancedProxyManager.failed_proxies: a set
    proxy_stats,              \* EnhancedProxyManager.proxy_stats: url -> counters
    proxy_call                \* the latest call of the manager: the method, its
                              \* result, and the pool and the failed set as
                              \* they were before it

\* proxy_call records the calls and is read by no action.
pxVars == <<proxies, current_proxy_index, failed_proxies, proxy_stats, proxy_call>>

\* A call of calculate_account_age.
VARIABLES
    user_id,                  \* the argument
    current_year,             \* datetime.now().year
    account_age               \* what the call returned

ageVars == <<user_id, current_year, account_age>>

vars == <<monVars, rlVars, urlVars, clVars, pxVars, ageVars>>

\* What the actions of the scheduler, of the limiter, of the url manager, of
\* the client and of the proxy manager leave alone.
offMonitor == <<rlVars, urlVars, clVars, pxVars, ageVars>>

offLimiter == <<monVars, urlVars, clVars, pxVars, ageVars>>

offUrls == <<monVars, rlVars, clVars, pxVars, ageVars>>

offClient == <<monVars, pxVars, ageVars>>

offProxies == <<monVars, rlVars, urlVars, clVars, ageVars>>

offAge == <<monVars, rlVars, urlVars, clVars, pxVars>>

ItemIds == 1..MaxItems

\* ---------------------------------------------------------------- helpers
InQueue(md) == \E i \in 1..Len(monitor_queue) : monitor_queue[i] = md

\* list.remove(x): drops the first occurrence.
RECURSIVE ListRemove(_, _)
ListRemove(q, x) ==
    IF q = <<>> THEN <<>>
    ELSE IF Head(q) = x THEN Tail(q)
    ELSE <<Head(q)>> \o ListRemove(Tail(q), x)

\* del d[k]
DictDel(d, k) == [x \in (DOMAIN d) \ {k} |-> d[x]]

\* d[k] = v
DictSet(d, k, v) == [x \in (DOMAIN d) \cup {k} |-> IF x = k THEN v ELSE d[x]]

\* A scheduler task that is suspended in (or has left) sequential_monitor_loop.
Task(pc, cancel) ==
    [pc |-> pc, snapshot |-> <<>>, cur |-> 0, is_banned_state |-> FALSE,
     check_count |-> 0, last_known_data |-> FALSE, proxy_url |-> FALSE,
     res |-> "error", cancel |-> cancel]

\* The pcs at which the task is suspended in an await.
SleepPcs == {"created", "sleep30", "sleep_round", "sleep60"}
PollPcs  == {"lookup", "lookup_noproxy", "alert", "delay"}

\* The pcs of a slot that holds no live task: never used, or its task left
\* the while loop, or ended by CancelledError.
EndPcs == {"none", "exited", "cancelled"}

\* No task is in the middle of a synchronous stretch of code.
NoTaskRunning == \A t \in DOMAIN loops : loops[t].pc # "round"

\* asyncio.create_task: the slot the new task takes.
FreeSlots == {t \in DOMAIN loops : loops[t].pc \in EndPcs}
NewTask == CHOOSE t \in FreeSlots : \A u \in FreeSlots : t <= u

\* EnhancedProxyManager.__init__ (lines 36-42): an empty pool, and the
\* counters _load_proxy_stats found in the database.
InitProxyManager(loaded) ==
    /\ proxies = << >>
    /\ current_proxy_index = 0
    /\ failed_proxies = {}
    /\ proxy_stats = loaded
    /\ proxy_call = [op |-> "__init__", proxy |-> "None", pool |-> << >>,
                     failed |-> {}]

\* calculate_account_age has not been called.
NotCalled == [text |-> "", age |-> 0, year |-> 0]

NoAccountAge ==
    /\ user_id = [type |-> "NoneType", text |-> << >>]
    /\ current_year = 2024
    /\ account_age = NotCalled

\* ------------------------------------------------------------------- Init
InitScheduler ==
    /\ monitoring_tasks = << >>
    /\ monitor_queue = << >>
    /\ items = << >>
    /\ is_sequential_running = FALSE
    /\ sequential_monitor_task = 0
    /\ loops = [t \in 1..MaxLoops |-> Task("none", FALSE)]
    /\ cmds = EmptyBag
    /\ alerts = [i \in ItemIds |-> 0]
    /\ session_ends = [i \in ItemIds |-> 0]
    /\ removals = [i \in ItemIds |-> 0]
    /\ value_error = FALSE
    /\ hist = 0
    /\ matched = FALSE
    /\ last_poll = [res |-> "none", is_banned_state |-> FALSE,
                    consecutive_errors |-> 0, alerts |-> 0]

\* EnhancedInstagramMonitor.__init__ (lines 157-173), with its proxy manager.
InitMonitor == InitScheduler /\ InitProxyManager(<< >>) /\ NoAccountAge

\* RateLimiter.__init__(requests_per_minute, burst), at time 0.
InitRateLimiter(rpm, b) ==
    /\ requests_per_minute = rpm
    /\ burst = b
    /\ requests = << >>
    /\ burst_tokens = b
    /\ last_refill = 0
    /\ clock = 0
    /\ callers = [c \in 1..NCallers |-> [pc |-> "idle", wake |-> 0]]
    /\ admitted = << >>
    /\ refill_admits = 0
    /\ raised = FALSE

\* The limiter the client builds from the configuration's defaults.
InitDefaultLimiter ==
    InitRateLimiter(RATE_LIMIT_REQUESTS_PER_MINUTE, RATE_LIMIT_BURST)

\* APIURLManager.__init__(urls, strategy).
InitUrlManager(us, st) ==
    /\ urls = (IF us = << >> THEN <<INSTAGRAM_API_URL>> ELSE us)
    /\ strategy = st
    /\ current_index = 0
    /\ url_stats = [u \in {us[i] : i \in 1..Len(us)}
                          \cup (IF us = << >> THEN {INSTAGRAM_API_URL} ELSE {})
                      |-> [success_count |-> 0,
                           failure_count |-> 0,
                           total_response_time |-> 0,
                           consecutive_failures |-> 0,
                           is_active |-> TRUE]]
    /\ last_call = [op |-> "__init__", url |-> "", active |-> {}]
    /\ fail_streak = [u \in {us[i] : i \in 1..Len(us)}
                            \cup (IF us = << >> THEN {INSTAGRAM_API_URL} ELSE {})
                        |-> 0]

\* The manager of a client that is given no list and no strategy.
InitDefaultUrlManager == InitUrlManager(<< >>, "health_based")

\* APIClient.__init__ (lines 215-218); graph says whether the Graph API is
\* configured.
InitClient(graph) ==
    /\ consecutive_errors = 0
    /\ last_error_time = -1
    /\ graph_enabled = graph
    /\ lookup = [pc |-> "idle", path |-> "scraped", attempt |-> 0,
                 api_url |-> "", tried |-> << >>, calls |-> 0]
    /\ response = [status_code |-> 0, success |-> FALSE, st |-> "none",
                   cooldown |-> FALSE, network |-> FALSE]
    /\ result = [st |-> "none", status_code |-> 0, success |-> FALSE]

\* The polls of one item, any of them, are recorded.
Init == InitMonitor /\ observed \in ItemIds /\ InitDefaultLimiter
             /\ InitDefaultUrlManager /\ InitClient(FALSE)

\* No item's polls are recorded.
InitUnobserved == InitMonitor /\ observed = 0 /\ InitDefaultLimiter
                      /\ InitDefaultUrlManager /\ InitClient(FALSE)

\* ----------------------------------------------------------- the commands
\* start_monitoring without the test of the running flag: every call creates
\* a scheduler task.
start_monitoring_unguarded(username, monitor_type) ==
    LET md == Len(items) + 1 IN
        /\ md <= MaxItems
        /\ FreeSlots # {}
        /\ is_sequential_running' = TRUE
        /\ loops' = [loops EXCEPT ![NewTask] = Task("created", FALSE)]
        /\ sequential_monitor_task' = NewTask
        /\ items' = Append(items,
                       [username |-> username,
                        monitor_type |-> monitor_type,
                        is_banned_state |-> (monitor_type = "unban"),
                        check_count |-> 0,
                        last_known_data |-> FALSE,
                        session_id |-> md,
                        consecutive_errors |-> 0])
        /\ monitor_queue' = Append(monitor_queue, md)
        /\ monitoring_tasks' = DictSet(monitoring_tasks, username, md)

\* start_monitoring with the sub-flag of every new item FALSE, whatever the
\* kind of the watch.
start_monitoring_flag_false(username, monitor_type) ==
    LET md == Len(items) + 1
        spawn == ~is_sequential_running
    IN  /\ md <= MaxItems
        /\ spawn => FreeSlots # {}
        /\ is_sequential_running' = TRUE
        /\ IF spawn
           THEN /\ loops' = [loops EXCEPT ![NewTask] = Task("created", FALSE)]
                /\ sequential_monitor_task' = NewTask
           ELSE UNCHANGED <<loops, sequential_monitor_task>>
        /\ items' = Append(items,
                       [username |-> username,
                        monitor_type |-> monitor_type,
                        is_banned_state |-> FALSE,
                        check_count |-> 0,
                        last_known_data |-> FALSE,
                        session_id |-> md,
                        consecutive_errors |-> 0])
        /\ monitor_queue' = Append(monitor_queue, md)
        /\ monitoring_tasks' = DictSet(monitoring_tasks, username, md)

\* start_monitoring(username, monitor_type, ...): a coroutine without an
\* await, so it runs in one piece.  It starts the scheduler task unless the
\* running flag is set, opens a session, and appends a new MonitorData to the
\* queue and registers it under username, without looking at either.
start_monitoring(username, monitor_type) ==
    LET md == Len(items) + 1
        spawn == ~is_sequential_running
    IN  /\ md <= MaxItems
        /\ spawn => FreeSlots # {}
        /\ is_sequential_running' = TRUE
        /\ IF spawn
           THEN /\ loops' = [loops EXCEPT ![NewTask] = Task("created", FALSE)]
                /\ sequential_monitor_task' = NewTask
           ELSE UNCHANGED <<loops, sequential_monitor_task>>
        /\ items' = Append(items,
                       [username |-> username,
                        monitor_type |-> monitor_type,
                        is_banned_state |-> (monitor_type = "unban"),
                        check_count |-> 0,
                        last_known_data |-> FALSE,
                        session_id |-> md,
                        consecutive_errors |-> 0])
        /\ monitor_queue' = Append(monitor_queue, md)
        /\ monitoring_tasks' = DictSet(monitoring_tasks, username, md)

\* ban_monitor_command / unban_monitor_command up to their first await that
\* matters: normalise the argument, refuse it when it is a key of the
\* registry, otherwise suspend in the status lookup.
WatchCommand(raw, monitor_type) ==
    LET username == BotNormalize(raw) IN
    /\ UNCHANGED offMonitor
    /\ NoTaskRunning
    /\ BagCardinality(cmds) < MaxCmds
    /\ username \notin DOMAIN monitoring_tasks
    /\ cmds' = cmds (+) SetToBag({[username |-> username,
                                   monitor_type |-> monitor_type]})
    /\ UNCHANGED <<monitoring_tasks, monitor_queue, items, is_sequential_running,
                   sequential_monitor_task, loops, alerts, session_ends, hist, matched,
                   removals, value_error, observed, last_poll>>

\* The status a watch of this kind may start from: a ban watch needs the
\* account present, an unban watch needs it absent.
StartStatus(monitor_type) == IF monitor_type = "ban" THEN "ok" ELSE "not_found"

DropCmd(c) == cmds (-) SetToBag({c})

\* The status lookup of a suspended command returns st; the command gives up
\* unless st is the status its kind starts from.
WatchCommandRefused(c, st) ==
    /\ UNCHANGED offMonitor
    /\ NoTaskRunning
    /\ BagIn(c, cmds)
    /\ st # StartStatus(c.monitor_type)
    /\ cmds' = DropCmd(c)
    /\ UNCHANGED <<monitoring_tasks, monitor_queue, items, is_sequential_running,
                   sequential_monitor_task, loops, alerts, session_ends, hist, matched,
                   removals, value_error, observed, last_poll>>

\* The status lookup returned the status the kind starts from: the command
\* calls start_monitoring (the registry is not looked at again).
WatchCommandStarts(c) ==
    /\ UNCHANGED offMonitor
    /\ NoTaskRunning
    /\ BagIn(c, cmds)
    /\ start_monitoring(c.username, c.monitor_type)
    /\ cmds' = DropCmd(c)
    /\ UNCHANGED <<alerts, session_ends, hist, matched, removals, value_error, observed,
                   last_poll>>

\* stop_monitor_command with an argument, and stop_monitoring(username).
stop_monitoring(raw) ==
    LET username == BotNormalize(raw) IN
    /\ UNCHANGED offMonitor
    /\ NoTaskRunning
    /\ username \in DOMAIN monitoring_tasks
    /\ LET md == monitoring_tasks[username] IN
         IF InQueue(md)
         THEN /\ monitor_queue' = ListRemove(monitor_queue, md)
              /\ removals' = [removals EXCEPT ![md] = @ + 1]
         ELSE UNCHANGED <<monitor_queue, removals>>
    /\ session_ends' =
          (LET md == monitoring_tasks[username] IN
             IF items[md].session_id # 0
             THEN [session_ends EXCEPT ![md] = @ + 1] ELSE session_ends)
    /\ monitoring_tasks' = DictDel(monitoring_tasks, username)
    /\ UNCHANGED <<items, is_sequential_running, sequential_monitor_task, loops,
                   cmds, alerts, hist, matched, value_error, observed, last_poll>>

\* cleanup(): clears the running flag and cancels the task start_monitoring
\* created last.  Task.cancel() only requests the cancellation; the task gets
\* CancelledError at the await it is suspended in, when it is next resumed.
cleanup ==
    /\ UNCHANGED offMonitor
    /\ NoTaskRunning
    /\ is_sequential_running' = FALSE
    /\ IF sequential_monitor_task # 0
          /\ loops[sequential_monitor_task].pc \notin EndPcs
       THEN loops' = [loops EXCEPT ![sequential_monitor_task].cancel = TRUE]
       ELSE UNCHANGED loops
    /\ UNCHANGED <<monitoring_tasks, monitor_queue, items, sequential_monitor_task,
                   cmds, alerts, session_ends, hist, matched, removals, value_error, observed,
                   last_poll>>

\* ---------------------------------------------------------- the scheduler
\* The poll results of the scenario "present, present, absent", and how far
\* an item's polls have followed it: k < Len means its first k polls were the
\* first k results, Len that its polls were exactly these, Len + 1 that they
\* left the scenario.
Scenario == <<"ok", "ok", "not_found">>

Follow(k, res) ==
    IF k < Len(Scenario) /\ res = Scenario[k + 1] THEN k + 1 ELSE Len(Scenario) + 1

\* The result a watch of this kind waits for.
Watched(monitor_type) == IF monitor_type = "ban" THEN "not_found" ELSE "ok"

\* The for loop left for good by an exception of a poll: the task ends.
ContinueFatal(rest) == Task("exited", FALSE)

\* The task goes on with the rest of the snapshot (the for loop of line 240).
Continue(rest) == [Task("round", FALSE) EXCEPT !.snapshot = rest]

\* The handler without line 245: the error is not counted.
ExceptHandlerNoCount(t, md, its, rest, ve) ==
    /\ items' = its
    /\ loops' = [loops EXCEPT ![t] = Continue(rest)]
    /\ value_error' = (value_error \/ ve)
    /\ UNCHANGED <<monitor_queue, removals, monitoring_tasks>>

\* The handler of the for loop's try (lines 243-252), entered with the item's
\* fields as its; ve says that a ValueError was raised on the way here.  The
\* handler counts the error and at the ceiling removes the item from the
\* queue and its username from the registry.  list.remove raises ValueError
\* for an item that is not in the queue; that leaves the for loop for the
\* outer handler (lines 257-259), which sleeps 60 s.
ExceptHandler(t, md, its, rest, ve) ==
    LET n == its[md].consecutive_errors + 1 IN
    /\ items' = [its EXCEPT ![md].consecutive_errors = n]
    /\ IF n >= MAX_CONSECUTIVE_ERRORS
       THEN IF InQueue(md)
            THEN /\ monitor_queue' = ListRemove(monitor_queue, md)
                 /\ removals' = [removals EXCEPT ![md] = @ + 1]
                 /\ monitoring_tasks' = DictDel(monitoring_tasks, its[md].username)
                 /\ loops' = [loops EXCEPT ![t] = Continue(rest)]
                 /\ value_error' = (value_error \/ ve)
            ELSE /\ value_error' = TRUE
                 /\ loops' = [loops EXCEPT ![t] = Task("sleep60", FALSE)]
                 /\ UNCHANGED <<monitor_queue, removals, monitoring_tasks>>
       ELSE /\ loops' = [loops EXCEPT ![t] = Continue(rest)]
            /\ value_error' = (value_error \/ ve)
            /\ UNCHANGED <<monitor_queue, removals, monitoring_tasks>>

\* _process_monitor_data from its entry to its first suspension (lines
\* 263-276).  Line 264 reads monitor_data.type; MonitorData declares
\* monitor_type and no field type, so the read raises AttributeError, before
\* the proxy is chosen and before the lookup is made, and the for loop's
\* handler runs.  (With the field present the coroutine would copy the
\* item's fields into locals and suspend in get_instagram_profile.)
ProcessStart(t, md, res, rest) ==
    IF "type" \in MonitorDataFields
    THEN /\ \E px \in BOOLEAN :
              loops' = [loops EXCEPT ![t] =
                  [pc |-> "lookup", snapshot |-> rest, cur |-> md,
                   is_banned_state |-> items[md].is_banned_state,
                   check_count |-> items[md].check_count,
                   last_known_data |-> items[md].last_known_data,
                   proxy_url |-> px, res |-> res, cancel |-> FALSE]]
         /\ UNCHANGED <<items, monitor_queue, monitoring_tasks, removals,
                        value_error>>
    ELSE ExceptHandler(t, md, items, rest, FALSE)

\* Lines 322-361, with the item's fields as its and the lookup's verdict res:
\* store the profile, detect the state change against the local copy of
\* is_banned_state taken before the lookup, and either suspend in the alert's
\* send_func or in the delay between two accounts.
Detect(t, md, its, res) ==
    LET lp  == loops[t]
        its2 == IF res = "ok"
                THEN [its EXCEPT ![md].last_known_data = TRUE,
                                 ![md].consecutive_errors = 0]
                ELSE its
        currently_banned == (res = "not_found")
        flip == currently_banned # lp.is_banned_state
        its3 == IF flip THEN [its2 EXCEPT ![md].is_banned_state = currently_banned]
                ELSE its2
        fire == flip /\ res = Watched(its[md].monitor_type)
    IN  /\ items' = its3
        /\ loops' = [loops EXCEPT ![t] =
              [lp EXCEPT !.pc = IF fire THEN "alert" ELSE "delay", !.res = res]]
        /\ UNCHANGED <<monitor_queue, monitoring_tasks, removals, value_error,
                       alerts, session_ends>>

\* Lines 278-320, resumed with the lookup's response: count the check, and
\* when the response blames the proxy look the profile up again without one.
AfterLookup(t) ==
    LET lp  == loops[t]
        md  == lp.cur
        its == [items EXCEPT ![md].check_count = lp.check_count + 1]
    IN  \E proxy_error \in BOOLEAN :
          IF proxy_error /\ lp.res = "error" /\ lp.proxy_url
          THEN /\ items' = its
               /\ loops' = [loops EXCEPT ![t].pc = "lookup_noproxy"]
               /\ UNCHANGED <<monitor_queue, monitoring_tasks, removals,
                              value_error, alerts, session_ends>>
          ELSE Detect(t, md, its, lp.res)

\* Lines 340-344 and 354-358, resumed when send_func returned (sent) or raised:
\* after the alert the item is removed from the queue (its registry entry
\* stays) and the for loop goes on; an exception goes to the handler.
AfterAlert(t) ==
    LET lp == loops[t]
        md == lp.cur
    IN  \E sent \in BOOLEAN :
          IF sent /\ InQueue(md)
          THEN /\ alerts' = [alerts EXCEPT ![md] = @ + 1]
               /\ monitor_queue' = ListRemove(monitor_queue, md)
               /\ removals' = [removals EXCEPT ![md] = @ + 1]
               /\ session_ends' = (IF items[md].session_id # 0
                                   THEN [session_ends EXCEPT ![md] = @ + 1]
                                   ELSE session_ends)
               /\ loops' = [loops EXCEPT ![t] = Continue(lp.snapshot)]
               /\ UNCHANGED <<items, monitoring_tasks, value_error>>
          ELSE /\ alerts' = [alerts EXCEPT ![md] = IF sent THEN @ + 1 ELSE @]
               /\ session_ends' = session_ends
               /\ ExceptHandler(t, md, items, lp.snapshot, sent)

\* The head of the while loop (lines 233-240), reached when a sleep of the
\* loop ends or the task first runs.
WhileHead(t) ==
    /\ loops' = [loops EXCEPT ![t] =
          IF ~is_sequential_running THEN Task("exited", FALSE)
          ELSE IF monitor_queue = << >> THEN Task("sleep30", FALSE)
          ELSE Continue(monitor_queue)]
    /\ UNCHANGED <<items, monitor_queue, monitoring_tasks, removals,
                   value_error, alerts, session_ends>>

\* The event loop resumes the scheduler task at the await it is suspended
\* in.  A task whose cancellation was requested gets CancelledError there,
\* which no handler of the loop catches (it is no Exception): the task ends.
LoopResume(t) ==
    /\ UNCHANGED offMonitor
    /\ NoTaskRunning
    /\ t \in DOMAIN loops
    /\ loops[t].pc \in SleepPcs \cup PollPcs
    /\ IF loops[t].cancel
       THEN /\ loops' = [loops EXCEPT ![t] = Task("cancelled", FALSE)]
            /\ UNCHANGED <<items, monitor_queue, monitoring_tasks, removals,
                           value_error, alerts, session_ends>>
       ELSE IF loops[t].pc \in SleepPcs THEN WhileHead(t)
       ELSE IF loops[t].pc = "lookup" THEN AfterLookup(t)
       ELSE IF loops[t].pc = "lookup_noproxy"
            THEN \E res \in Results : Detect(t, loops[t].cur, items, res)
       ELSE IF loops[t].pc = "alert" THEN AfterAlert(t)
       ELSE /\ loops' = [loops EXCEPT ![t] = Continue(loops[t].snapshot)]
            /\ UNCHANGED <<items, monitor_queue, monitoring_tasks, removals,
                           value_error, alerts, session_ends>>
    /\ UNCHANGED <<is_sequential_running, sequential_monitor_task, cmds, hist,
                   matched, observed, last_poll>>

\* One iteration of the for loop over the snapshot (lines 240-252): the poll
\* of the next item.  res is the verdict a lookup of the item's identity
\* gives at this moment.
LoopProcessItem(t) ==
    /\ UNCHANGED offMonitor
    /\ t \in DOMAIN loops
    /\ loops[t].pc = "round"
    /\ loops[t].snapshot # << >>
    /\ LET md == Head(loops[t].snapshot)
           rest == Tail(loops[t].snapshot)
       IN  \E res \in Results :
             /\ IF md = observed
                THEN /\ hist' = Follow(hist, res)
                     /\ matched' = (matched \/ res = Watched(items[md].monitor_type))
                     /\ last_poll' =
                            [res |-> res,
                             is_banned_state |-> items[md].is_banned_state,
                             consecutive_errors |-> items[md].consecutive_errors,
                             alerts |-> alerts[md]]
                ELSE UNCHANGED <<hist, matched, last_poll>>
             /\ ProcessStart(t, md, res, rest)
    /\ UNCHANGED <<is_sequential_running, sequential_monitor_task, cmds, alerts, session_ends,
                   observed>>

\* The for loop is through: sleep until the next round (line 255).
LoopRoundEnd(t) ==
    /\ UNCHANGED offMonitor
    /\ t \in DOMAIN loops
    /\ loops[t].pc = "round"
    /\ loops[t].snapshot = << >>
    /\ loops' = [loops EXCEPT ![t] = Task("sleep_round", FALSE)]
    /\ UNCHANGED <<monitoring_tasks, monitor_queue, items, is_sequential_running,
                   sequential_monitor_task, cmds, alerts, session_ends, hist, matched,
                   removals, value_error, observed, last_poll>>

\* ------------------------------------------------------- the specification
Next ==
    \/ \E raw \in RawNames, k \in MonitorTypes : WatchCommand(raw, k)
    \/ \E c \in Commands, st \in Results : WatchCommandRefused(c, st)
    \/ \E c \in Commands : WatchCommandStarts(c)
    \/ \E raw \in RawNames : stop_monitoring(raw)
    \/ \E t \in 1..MaxLoops : LoopResume(t)
    \/ \E t \in 1..MaxLoops : LoopProcessItem(t)
    \/ \E t \in 1..MaxLoops : LoopRoundEnd(t)

\* The running bot: commands, the scheduler, and the polls of one item
\* recorded.
Spec == Init /\ [][Next]_vars

\* The bot with its shutdown path: cleanup may be called at any await, and
\* watches may be started again after it.
NextCleanup == Next \/ cleanup

SpecCleanup == InitUnobserved /\ [][NextCleanup]_vars

\* The running bot on an event loop that resumes every task that is ready:
\* a sleep ends, an awaited call returns or raises, and a task that is
\* running goes on.
SpecFair ==
    /\ InitUnobserved
    /\ [][Next]_vars
    /\ \A t \in 1..MaxLoops :
          /\ WF_vars(LoopResume(t))
          /\ WF_vars(LoopProcessItem(t))
          /\ WF_vars(LoopRoundEnd(t))

\* --------------------------------------------------------- the rate limiter
\* An admission that takes no token and records nothing.
AdmittedFree(tokens, pruned, now) ==
    [burst_tokens |-> tokens, requests |-> pruned]

\* The admission itself (lines 200-201): the time is recorded and one token
\* is taken.
Admitted(tokens, pruned, now) ==
    [burst_tokens |-> tokens - 1, requests |-> Append(pruned, now)]

\* What one run of acquire's body (lines 180-201) at time now makes of the
\* limiter: the fields it leaves, and how the run ends: "admit" (it returns),
\* "sleep" until wake and then calls itself again, or "raise".
AcquireBody(now) ==
    LET refill == (now - last_refill >= Window)
        tokens == IF refill THEN burst ELSE burst_tokens
        refilled == IF refill THEN now ELSE last_refill
        kept == IF refill THEN << >> ELSE requests
        pruned == SelectSeq(kept, LAMBDA req_time : req_time > now - Window)
        base == [burst_tokens |-> tokens, last_refill |-> refilled,
                 refill |-> refill]
    IN  IF tokens <= 0
        THEN base @@ [end |-> "sleep", requests |-> kept, wake |-> now + 1]
        ELSE IF Len(pruned) >= requests_per_minute
                  /\ pruned = << >>
        THEN base @@ [end |-> "raise", requests |-> pruned, wake |-> 0]
        ELSE IF Len(pruned) >= requests_per_minute
                  /\ Window - (now - pruned[1]) > 0
        THEN base @@ [end |-> "sleep", requests |-> pruned,
                      wake |-> now + (Window - (now - pruned[1]))]
        ELSE [base EXCEPT !.burst_tokens = Admitted(tokens, pruned, now).burst_tokens]
                 @@ [end |-> "admit", requests |-> Admitted(tokens, pruned, now).requests,
                     wake |-> 0]

\* Caller c runs the body of acquire until it suspends, returns or raises.
RunAcquire(c) ==
    LET r == AcquireBody(clock)
        since == IF r.refill THEN 0 ELSE refill_admits
    IN  /\ requests' = r.requests
        /\ burst_tokens' = r.burst_tokens
        /\ last_refill' = r.last_refill
        /\ callers' = [callers EXCEPT ![c] =
                          IF r.end = "sleep"
                          THEN [pc |-> "sleep", wake |-> r.wake]
                          ELSE [pc |-> "idle", wake |-> 0]]
        /\ raised' = (raised \/ r.end = "raise")
        /\ IF r.end = "admit"
           THEN /\ admitted' = Append(SelectSeq(admitted,
                                   LAMBDA a : a > clock - Window), clock)
                /\ refill_admits' = since + 1
           ELSE /\ admitted' = admitted
                /\ refill_admits' = since
        /\ UNCHANGED <<requests_per_minute, burst, clock>>

\* A coroutine calls acquire (line 286 of the client).
Acquire(c) ==
    /\ callers[c].pc = "idle"
    /\ RunAcquire(c)
    /\ UNCHANGED offLimiter

\* A caller's sleep is over: "return await self.acquire()" (lines 189, 198).
AcquireAgain(c) ==
    /\ callers[c].pc = "sleep"
    /\ callers[c].wake <= clock
    /\ RunAcquire(c)
    /\ UNCHANGED offLimiter

\* The times at which sleeping callers are due.
WakeTimes == {callers[c].wake : c \in {d \in 1..NCallers : callers[d].pc = "sleep"}}

\* Time passes, up to the moment the next sleeping caller is due.
Advance(d) ==
    /\ d > 0
    /\ clock + d <= MaxTime
    /\ \A w \in WakeTimes : clock + d <= w
    /\ clock' = clock + d
    /\ UNCHANGED <<requests_per_minute, burst, requests, burst_tokens, last_refill,
                   callers, admitted, refill_admits, raised>>
    /\ UNCHANGED offLimiter

NextLimiter ==
    \/ \E c \in 1..NCallers : Acquire(c)
    \/ \E c \in 1..NCallers : AcquireAgain(c)
    \/ \E d \in Gaps \cup {w - clock : w \in WakeTimes} : Advance(d)

\* A limiter of any of the configurations, its callers and the clock.
InitLimiter ==
    /\ InitMonitor
    /\ observed = 0
    /\ \E rpm \in 0..MaxRate, b \in 0..MaxBurst : InitRateLimiter(rpm, b)
    /\ InitDefaultUrlManager
    /\ InitClient(FALSE)

SpecLimiter == InitLimiter /\ [][NextLimiter]_vars

\* --------------------------------------------------------- the url manager
Min(a, b) == IF a <= b THEN a ELSE b

Max(a, b) == IF a >= b THEN a ELSE b

\* Scores are counted in units of 1/ScoreUnit, which makes every score of
\* the counters checked a whole number (0.5 is ScoreUnit \div 2).
ScoreUnit == 12000

\* calculate_score with the penalty for consecutive failures added to the
\* score instead of taken from it.
calculate_score_bonus(stats) ==
    LET success == stats.success_count
        total == success + stats.failure_count
    IN  IF total = 0 THEN ScoreUnit \div 2
        ELSE Max(0, (((7 * ScoreUnit) \div 10) * success) \div total
                     + Min(stats.consecutive_failures * (ScoreUnit \div 10),
                           ScoreUnit \div 2))

\* calculate_score (lines 92-109) of an endpoint's counters, in units of
\* 1/ScoreUnit.  The stored avg_response_time is total_response_time /
\* success_count (line 129), and 0.0 before the first success.  The source
\* computes in binary floating point: 0.7 - 0.2 gives 0.49999999999999994,
\* which is below the 0.5 of an unused endpoint; that is the one comparison
\* within MaxSuccess and MaxFailure in which the floats differ from the
\* exact values, and the score is put one unit below there.
calculate_score(stats) ==
    LET success == stats.success_count
        failure == stats.failure_count
        total == success + failure
    IN  IF total = 0 THEN ScoreUnit \div 2
        ELSE LET rate == (((7 * ScoreUnit) \div 10) * success) \div total
                 time_penalty ==
                     IF success = 0 THEN 0
                     ELSE Min(((ScoreUnit \div 10) * stats.total_response_time)
                                  \div success,
                              ScoreUnit \div 5)
                 consecutive_penalty ==
                     Min(stats.consecutive_failures * (ScoreUnit \div 10),
                         ScoreUnit \div 2)
                 rounding ==
                     IF failure = 0 /\ time_penalty = ScoreUnit \div 5
                           /\ consecutive_penalty = 0
                     THEN 1 ELSE 0
             IN  Max(0, rate - time_penalty - consecutive_penalty - rounding)

\* [url for url in self.urls if self.url_stats[url]['is_active']]
ActiveUrls(st) == SelectSeq(urls, LAMBDA u : st[u].is_active)

\* The selections without their reset.
NoReset(st) == st

\* The reset the three selections start with when no endpoint is active
\* (lines 61-65, 77-80, 87-90).
ResetIfNoneActive(st) ==
    IF ActiveUrls(st) = << >>
    THEN [u \in DOMAIN st |-> [st[u] EXCEPT !.is_active = TRUE]]
    ELSE st

\* What a selection leaves and returns; "IndexError" stands for the
\* exception an empty list of candidates raises.
Selected(url, st, idx) == [url |-> url, url_stats |-> st, current_index |-> idx]

\* _round_robin (lines 58-72).
round_robin(st, idx) ==
    LET reset == ResetIfNoneActive(st)
        active_urls == ActiveUrls(reset)
        i == IF idx >= Len(active_urls) THEN 0 ELSE idx
    IN  IF active_urls = << >> THEN {Selected("IndexError", reset, i)}
        ELSE {Selected(active_urls[i + 1], reset, (i + 1) % Len(active_urls))}

\* _random_selection (lines 74-82): any of the active endpoints.
random_selection(st, idx) ==
    LET reset == ResetIfNoneActive(st)
        active_urls == ActiveUrls(reset)
    IN  IF active_urls = << >> THEN {Selected("IndexError", reset, idx)}
        ELSE {Selected(active_urls[i], reset, idx) : i \in 1..Len(active_urls)}

\* The health-based selection made among all endpoints of the pool, active
\* or not.
health_based_selection_all(st, idx) ==
    LET score(i) == calculate_score(st[urls[i]])
        best == CHOOSE i \in 1..Len(urls) :
                    \A j \in 1..Len(urls) :
                        /\ score(j) <= score(i)
                        /\ j < i => score(j) < score(i)
    IN  {Selected(urls[best], ResetIfNoneActive(st), idx)}

\* The health-based selection with the last of the best endpoints returned.
health_based_selection_last(st, idx) ==
    LET reset == ResetIfNoneActive(st)
        active_urls == ActiveUrls(reset)
        score(i) == calculate_score(reset[active_urls[i]])
        best == CHOOSE i \in 1..Len(active_urls) :
                    \A j \in 1..Len(active_urls) :
                        /\ score(j) <= score(i)
                        /\ j > i => score(j) < score(i)
    IN  IF active_urls = << >> THEN {Selected("IndexError", reset, idx)}
        ELSE {Selected(active_urls[best], reset, idx)}

\* _health_based_selection (lines 84-115): the sort is stable, so of the
\* endpoints with the best score the first of the pool is returned.
health_based_selection(st, idx) ==
    LET reset == ResetIfNoneActive(st)
        active_urls == ActiveUrls(reset)
        score(i) == calculate_score(reset[active_urls[i]])
        best == CHOOSE i \in 1..Len(active_urls) :
                    \A j \in 1..Len(active_urls) :
                        /\ score(j) <= score(i)
                        /\ j < i => score(j) < score(i)
    IN  IF active_urls = << >> THEN {Selected("IndexError", reset, idx)}
        ELSE {Selected(active_urls[best], reset, idx)}

\* get_next_url (lines 47-56): the outcomes the configured strategy allows.
NextUrl(st, idx) ==
    IF strategy = "round_robin" THEN round_robin(st, idx)
    ELSE IF strategy = "random" THEN random_selection(st, idx)
    ELSE IF strategy = "health_based" THEN health_based_selection(st, idx)
    ELSE {Selected(urls[1], st, idx)}

\* mark_success that forgets to re-activate the endpoint.
MarkSuccessStaysInactive(st, url, response_time) ==
    IF url \in DOMAIN st
    THEN [st EXCEPT ![url] =
             [@ EXCEPT !.success_count = @ + 1,
                       !.consecutive_failures = 0,
                       !.total_response_time = @ + response_time]]
    ELSE st

\* The counters mark_success(url, response_time) leaves (lines 117-129).
MarkSuccess(st, url, response_time) ==
    IF url \in DOMAIN st
    THEN [st EXCEPT ![url] =
             [@ EXCEPT !.success_count = @ + 1,
                       !.consecutive_failures = 0,
                       !.is_active = TRUE,
                       !.total_response_time = @ + response_time]]
    ELSE st

\* mark_failure that deactivates only after the third failure is exceeded.
MarkFailureLate(st, url) ==
    IF url \in DOMAIN st
    THEN [st EXCEPT ![url] =
             [@ EXCEPT !.failure_count = @ + 1,
                       !.consecutive_failures = @ + 1,
                       !.is_active =
                           IF st[url].consecutive_failures + 1 > 3
                           THEN FALSE ELSE @]]
    ELSE st

\* The counters mark_failure(url) leaves (lines 131-142).
MarkFailure(st, url) ==
    IF url \in DOMAIN st
    THEN [st EXCEPT ![url] =
             [@ EXCEPT !.failure_count = @ + 1,
                       !.consecutive_failures = @ + 1,
                       !.is_active =
                           IF st[url].consecutive_failures + 1 >= 3
                           THEN FALSE ELSE @]]
    ELSE st

\* The endpoints whose is_active is true.
ActiveSet(st) == {u \in DOMAIN st : st[u].is_active}

\* A call of get_next_url.
get_next_url ==
    \E r \in NextUrl(url_stats, current_index) :
        /\ url_stats' = r.url_stats
        /\ current_index' = r.current_index
        /\ last_call' = [op |-> "get_next_url", url |-> r.url,
                         active |-> ActiveSet(url_stats)]
        /\ UNCHANGED <<urls, strategy, fail_streak>>
        /\ UNCHANGED offUrls

\* A call of mark_success, while the endpoint's counter is within the bound.
mark_success(url, response_time) ==
    /\ url \in DOMAIN url_stats => url_stats[url].success_count < MaxSuccess
    /\ url_stats' = MarkSuccess(url_stats, url, response_time)
    /\ last_call' = [op |-> "mark_success", url |-> url,
                     active |-> ActiveSet(url_stats)]
    /\ fail_streak' = [u \in DOMAIN fail_streak |->
                          IF u = url THEN 0 ELSE fail_streak[u]]
    /\ UNCHANGED <<urls, strategy, current_index>>
    /\ UNCHANGED offUrls

\* A call of mark_failure, while the endpoint's counter is within the bound.
mark_failure(url) ==
    /\ url \in DOMAIN url_stats => url_stats[url].failure_count < MaxFailure
    /\ url_stats' = MarkFailure(url_stats, url)
    /\ last_call' = [op |-> "mark_failure", url |-> url,
                     active |-> ActiveSet(url_stats)]
    /\ fail_streak' = [u \in DOMAIN fail_streak |->
                          IF u = url THEN fail_streak[u] + 1 ELSE fail_streak[u]]
    /\ UNCHANGED <<urls, strategy, current_index>>
    /\ UNCHANGED offUrls

\* The urls a caller may pass: those of the pool and one that is in none.
CallUrls == DOMAIN url_stats \cup {ForeignUrl}

NextUrls ==
    \/ get_next_url
    \/ \E url \in CallUrls, t \in ResponseTimes : mark_success(url, t)
    \/ \E url \in CallUrls : mark_failure(url)

\* A url manager of any of the pools and strategies.
InitUrls ==
    /\ InitMonitor
    /\ observed = 0
    /\ InitDefaultLimiter
    /\ \E us \in Pools, st \in Strategies : InitUrlManager(us, st)
    /\ InitClient(FALSE)

SpecUrls == InitUrls /\ [][NextUrls]_vars

\* -------------------------------------------------------------- the client
\* _is_in_cooldown with the counter compared by <= : the cooldown starts one
\* error late.
is_in_cooldown_late(now) ==
    /\ ~(consecutive_errors <= MAX_CONSECUTIVE_ERRORS)
    /\ last_error_time # -1
    /\ now - last_error_time < ERROR_COOLDOWN

\* _is_in_cooldown without the test of the time: once open, always open.
is_in_cooldown_forever(now) ==
    /\ ~(consecutive_errors < MAX_CONSECUTIVE_ERRORS)
    /\ last_error_time # -1

\* _is_in_cooldown (lines 261-269) at time now.
is_in_cooldown(now) ==
    /\ ~(consecutive_errors < MAX_CONSECUTIVE_ERRORS)
    /\ last_error_time # -1
    /\ now - last_error_time < ERROR_COOLDOWN

\* The response _make_request returns in the cooldown (lines 277-284).
CooldownResponse ==
    [status_code |-> 0, success |-> FALSE, st |-> "none", cooldown |-> TRUE,
     network |-> FALSE, response_time |-> 0]

\* The response _make_request returns after the network call (lines
\* 304-390); st is the verdict the body of a 200 holds.
NetworkResponse(outcome, t) ==
    [status_code |-> IF outcome \in {"profile", "no_profile", "bad_json"} THEN 200
                     ELSE IF outcome = "http_400" THEN 400
                     ELSE IF outcome = "http_404" THEN 404
                     ELSE IF outcome = "http_500" THEN 500
                     ELSE 0,
     success |-> (outcome \in {"profile", "no_profile"}),
     st |-> IF outcome = "profile" THEN "ok"
            ELSE IF outcome = "no_profile" THEN "not_found"
            ELSE "none",
     cooldown |-> FALSE,
     network |-> TRUE,
     response_time |-> t]

\* The lookup with one more request made, at the place pc.
Step(pc, path, attempt, url, tried) ==
    [pc |-> pc, path |-> path, attempt |-> attempt, api_url |-> url,
     tried |-> tried, calls |-> lookup.calls]

Returned(st, status_code, success) ==
    [st |-> st, status_code |-> status_code, success |-> success]

\* The retry test of line 431 with the bound off by one: a fourth attempt.
MoreAttemptsOneMore(attempt) == attempt < API_RETRY_ATTEMPTS

\* The retry test of line 431: the loop of line 403 has attempts left.
MoreAttempts(attempt) == attempt < API_RETRY_ATTEMPTS - 1

\* What get_instagram_profile does with the response of an attempt (lines
\* 414-436): st and idx are the manager's counters and index after the
\* url was chosen.
SettleScraped(resp, st, idx, url) ==
    LET tried == Append(lookup.tried,
                        [url |-> url, status_code |-> resp.status_code,
                         success |-> resp.success])
        done == Step("idle", "scraped", lookup.attempt, url, tried)
    IN  /\ url \in DOMAIN st =>
              IF resp.success THEN st[url].success_count < MaxSuccess
              ELSE st[url].failure_count < MaxFailure
        /\ url_stats' = (IF resp.success
                         THEN MarkSuccess(st, url, resp.response_time)
                         ELSE MarkFailure(st, url))
        /\ current_index' = idx
        /\ last_call' = [op |-> IF resp.success THEN "mark_success"
                                ELSE "mark_failure",
                         url |-> url, active |-> ActiveSet(st)]
        /\ fail_streak' = [u \in DOMAIN fail_streak |->
                              IF u # url THEN fail_streak[u]
                              ELSE IF resp.success THEN 0
                              ELSE fail_streak[u] + 1]
        /\ IF resp.success
           THEN /\ result' = Returned(resp.st, resp.status_code, TRUE)
                /\ lookup' = done
                /\ clock' = clock
           ELSE IF resp.status_code = 404
           THEN /\ result' = Returned("not_found", 404, TRUE)
                /\ lookup' = done
                /\ clock' = clock
           ELSE IF MoreAttempts(lookup.attempt)
           THEN /\ clock + API_RETRY_DELAY * (2 ^ lookup.attempt) <= MaxClientTime
                /\ clock' = clock + API_RETRY_DELAY * (2 ^ lookup.attempt)
                /\ lookup' = Step("attempt", "scraped", lookup.attempt + 1, url,
                                  tried)
                /\ result' = result
           ELSE /\ result' = Returned("none", resp.status_code, FALSE)
                /\ lookup' = done
                /\ clock' = clock

\* The test of line 399 without the bad request.
DefinitiveNotFoundOnly(status_code) == status_code = 404

\* The status codes of a failed Graph API request that end the lookup (line
\* 399).
Definitive(status_code) == status_code \in {404, 400}

\* What get_instagram_profile does with the response of the Graph API
\* request (lines 397-400 and 472-500).  The body of a response that is not
\* a 200 is not read (line 336), so no error message is found at line 477.
SettleGraph(resp) ==
    LET tried == Append(lookup.tried,
                        [url |-> "graph", status_code |-> resp.status_code,
                         success |-> resp.success])
        done == Step("idle", "graph", 0, "graph", tried)
    IN  /\ IF resp.success
           THEN /\ result' = (IF resp.st = "ok" THEN Returned("ok", 200, TRUE)
                              ELSE Returned("not_found", 404, TRUE))
                /\ lookup' = done
           ELSE IF Definitive(resp.status_code)
           THEN /\ result' = Returned("none", resp.status_code, FALSE)
                /\ lookup' = done
           ELSE /\ result' = result
                /\ lookup' = Step("attempt", "scraped", 0, "", tried)
        /\ UNCHANGED <<url_stats, current_index, last_call, fail_streak, clock>>

Settle(resp, st, idx, url) ==
    /\ response' = [f \in DOMAIN resp \ {"response_time"} |-> resp[f]]
    /\ IF lookup.path = "graph" THEN SettleGraph(resp)
       ELSE SettleScraped(resp, st, idx, url)

\* A caller calls get_instagram_profile.
StartLookup ==
    /\ lookup.pc = "idle"
    /\ lookup.calls < MaxLookups
    /\ lookup' = [Step("attempt", IF graph_enabled THEN "graph" ELSE "scraped",
                       0, "", << >>) EXCEPT !.calls = lookup.calls + 1]
    /\ UNCHANGED <<consecutive_errors, last_error_time, graph_enabled, response,
                   result>>
    /\ UNCHANGED <<offClient, rlVars, urlVars>>

\* The caller's place once acquire's body has run.
AfterAcquire(url) ==
    Step(IF AcquireBody(clock).end = "admit" THEN "network"
         ELSE IF AcquireBody(clock).end = "sleep" THEN "acquire"
         ELSE "raised",
         lookup.path, lookup.attempt, url, lookup.tried)

\* An attempt up to its first suspension: the url is chosen (line 406, not on
\* the Graph path), and _make_request either answers at once in the cooldown
\* or runs acquire (lines 277-286).
Attempt ==
    /\ lookup.pc = "attempt"
    /\ \E r \in (IF lookup.path = "graph"
                  THEN {Selected("graph", url_stats, current_index)}
                  ELSE NextUrl(url_stats, current_index)) :
          IF is_in_cooldown(clock)
          THEN /\ Settle(CooldownResponse, r.url_stats, r.current_index, r.url)
               /\ UNCHANGED <<requests_per_minute, burst, requests, burst_tokens,
                              last_refill, callers, admitted, refill_admits,
                              raised>>
          ELSE /\ RunAcquire(1)
               /\ lookup' = AfterAcquire(r.url)
               /\ url_stats' = r.url_stats
               /\ current_index' = r.current_index
               /\ last_call' = (IF lookup.path = "graph" THEN last_call
                                ELSE [op |-> "get_next_url", url |-> r.url,
                                      active |-> ActiveSet(url_stats)])
               /\ UNCHANGED <<fail_streak, response, result>>
    /\ UNCHANGED <<consecutive_errors, last_error_time, graph_enabled, urls,
                   strategy>>
    /\ UNCHANGED offClient

\* The sleep inside acquire is over: acquire runs again.
AttemptAcquireAgain ==
    /\ lookup.pc = "acquire"
    /\ callers[1].pc = "sleep"
    /\ callers[1].wake <= clock
    /\ RunAcquire(1)
    /\ lookup' = AfterAcquire(lookup.api_url)
    /\ UNCHANGED <<consecutive_errors, last_error_time, graph_enabled, response,
                   result>>
    /\ UNCHANGED <<offClient, urlVars>>

\* The counter of _make_request that a parsed 200 leaves as it is.
CountErrorsNoReset(outcome, errors) ==
    IF outcome = "exception" THEN errors + 1 ELSE errors

\* consecutive_errors after a request with this outcome: line 307 for a 200
\* whose body was parsed, lines 351, 365 and 379 for an exception.
CountErrors(outcome, errors) ==
    IF outcome \in {"profile", "no_profile"} THEN 0
    ELSE IF outcome = "exception" THEN errors + 1
    ELSE errors

\* The wait of the handler of line 438, before the next attempt (line 441).
RaisedDelay(attempt) == API_RETRY_DELAY

\* acquire raised inside _make_request (line 286 is outside its try).  On
\* the Graph API path the handler of line 501 makes a failure with status 0
\* of it and the lookup goes on with the scraped endpoints.  On the scraped
\* path the handler of lines 438-449 sleeps API_RETRY_DELAY and goes on with
\* the next attempt, or after the last attempt returns a failure; the
\* endpoint is not marked.
AttemptRaised ==
    /\ lookup.pc = "raised"
    /\ LET tried == Append(lookup.tried,
                           [url |-> lookup.api_url, status_code |-> 0,
                            success |-> FALSE])
       IN  IF lookup.path = "graph"
           THEN /\ lookup' = Step("attempt", "scraped", 0, "", tried)
                /\ UNCHANGED <<clock, result>>
           ELSE IF MoreAttempts(lookup.attempt)
           THEN /\ clock + RaisedDelay(lookup.attempt) <= MaxClientTime
                /\ clock' = clock + RaisedDelay(lookup.attempt)
                /\ lookup' = Step("attempt", "scraped", lookup.attempt + 1,
                                  lookup.api_url, tried)
                /\ result' = result
           ELSE /\ lookup' = Step("idle", "scraped", lookup.attempt,
                                  lookup.api_url, tried)
                /\ result' = Returned("none", 0, FALSE)
                /\ clock' = clock
    /\ UNCHANGED <<requests_per_minute, burst, requests, burst_tokens,
                   last_refill, callers, admitted, refill_admits, raised>>
    /\ UNCHANGED <<consecutive_errors, last_error_time, graph_enabled,
                   response>>
    /\ UNCHANGED <<offClient, urlVars>>

\* The network answers the request (lines 289-390), and the lookup goes on
\* with the response.
Network(outcome, t) ==
    /\ lookup.pc = "network"
    /\ consecutive_errors' = CountErrors(outcome, consecutive_errors)
    /\ last_error_time' = (IF outcome = "exception" THEN clock
                           ELSE last_error_time)
    /\ Settle(NetworkResponse(outcome, t), url_stats, current_index,
              lookup.api_url)
    /\ UNCHANGED <<requests_per_minute, burst, requests, burst_tokens,
                   last_refill, callers, admitted, refill_admits, raised>>
    /\ UNCHANGED <<graph_enabled, urls, strategy>>
    /\ UNCHANGED offClient

\* Time passes: between two lookups, or until the sleep inside acquire is
\* over.
Elapse(d) ==
    /\ \/ lookup.pc = "idle" /\ d \in ClientGaps
       \/ lookup.pc = "acquire" /\ d = callers[1].wake - clock
    /\ d > 0
    /\ clock + d <= MaxClientTime
    /\ clock' = clock + d
    /\ UNCHANGED <<requests_per_minute, burst, requests, burst_tokens,
                   last_refill, callers, admitted, refill_admits, raised>>
    /\ UNCHANGED <<offClient, urlVars, clVars>>

NextClient ==
    \/ StartLookup
    \/ Attempt
    \/ AttemptAcquireAgain
    \/ AttemptRaised
    \/ \E outcome \in Outcomes, t \in ResponseTimes : Network(outcome, t)
    \/ \E d \in ClientGaps \cup {w - clock : w \in WakeTimes} : Elapse(d)

\* A client with the pool [A, B], one of the two deterministic strategies,
\* the Graph API configured or not, and its limiter.
InitLookups ==
    /\ InitMonitor
    /\ observed = 0
    /\ \E rpm \in ClientRates : InitRateLimiter(rpm, RATE_LIMIT_BURST)
    /\ \E st \in ClientStrategies :
           InitUrlManager(<<INSTAGRAM_API_URL, "B">>, st)
    /\ \E graph \in BOOLEAN : InitClient(graph)

SpecClient == InitLookups /\ [][NextClient]_vars

\* -------------------------------------------------------- the proxy manager
ProxyUrls == {"p1", "p2", "p3"}

\* The rows of the table proxy_stats that _load_proxy_stats may find (lines
\* 44-51); avg_response_time is in seconds.
LoadedRows ==
    {[success_count |-> 1, failure_count |-> 0, avg_response_time |-> 2],
     [success_count |-> 1, failure_count |-> 1, avg_response_time |-> 0]}

LoadedStats ==
    UNION {[d -> LoadedRows] : d \in SUBSET {"p1", "p2"}}

\* The counters add_proxy gives a proxy (lines 57-62).
NewProxyRow ==
    [success_count |-> 0, failure_count |-> 0, avg_response_time |-> 0]

\* proxy_score (lines 90-103), in twentieths.
proxy_score(stats, proxy) ==
    LET success_count == IF proxy \in DOMAIN stats
                         THEN stats[proxy].success_count ELSE 0
        failure_count == IF proxy \in DOMAIN stats
                         THEN stats[proxy].failure_count ELSE 0
        total_requests == success_count + failure_count
    IN  IF total_requests = 0 THEN 10
        ELSE (20 * success_count) \div total_requests
                 - 2 * stats[proxy].avg_response_time

\* list.sort(key=proxy_score, reverse=True) (line 105): a stable sort, so
\* proxies of one score keep their order.
RECURSIVE InsertByScore(_, _, _)
InsertByScore(stats, sorted, x) ==
    IF sorted = << >> THEN <<x>>
    ELSE IF proxy_score(stats, Head(sorted)) >= proxy_score(stats, x)
    THEN <<Head(sorted)>> \o InsertByScore(stats, Tail(sorted), x)
    ELSE <<x>> \o sorted

RECURSIVE SortByScore(_, _)
SortByScore(stats, list) ==
    IF list = << >> THEN << >>
    ELSE InsertByScore(stats,
                       SortByScore(stats, SubSeq(list, 1, Len(list) - 1)),
                       list[Len(list)])

\* The filter of line 83 left out: every proxy of the pool is a candidate.
WorkingProxiesAll(pool, failed) == pool

\* The proxies of the pool that are not marked failed (line 83).
WorkingProxies(pool, failed) == SelectSeq(pool, LAMBDA q : q \notin failed)

InPool(q) == \E i \in 1..Len(proxies) : proxies[i] = q

ProxyCall(op, proxy) ==
    [op |-> op, proxy |-> proxy, pool |-> proxies, failed |-> failed_proxies]

\* add_proxy (lines 53-64).
add_proxy(proxy_url) ==
    /\ IF ~InPool(proxy_url)
       THEN /\ proxies' = Append(proxies, proxy_url)
            /\ proxy_stats' = (proxy_url :> NewProxyRow) @@ proxy_stats
       ELSE UNCHANGED <<proxies, proxy_stats>>
    /\ proxy_call' = ProxyCall("add_proxy", proxy_url)
    /\ UNCHANGED <<current_proxy_index, failed_proxies>>
    /\ UNCHANGED offProxies

\* remove_proxy (lines 66-75).
remove_proxy(proxy_url) ==
    /\ IF InPool(proxy_url)
       THEN /\ proxies' = SelectSeq(proxies, LAMBDA q : q # proxy_url)
            /\ failed_proxies' = failed_proxies \ {proxy_url}
            /\ proxy_stats' = [q \in DOMAIN proxy_stats \ {proxy_url}
                                  |-> proxy_stats[q]]
       ELSE UNCHANGED <<proxies, failed_proxies, proxy_stats>>
    /\ proxy_call' = ProxyCall("remove_proxy", proxy_url)
    /\ UNCHANGED current_proxy_index
    /\ UNCHANGED offProxies

\* get_next_proxy (lines 77-112).  When every proxy is marked failed,
\* working_proxies is the list self.proxies itself, and the sort of line 105
\* sorts the pool in place.
get_next_proxy ==
    /\ IF proxies = << >>
       THEN /\ proxy_call' = ProxyCall("get_next_proxy", "None")
            /\ UNCHANGED <<proxies, failed_proxies, current_proxy_index>>
       ELSE LET found == WorkingProxies(proxies, failed_proxies)
                reset == (found = << >>)
                working_proxies == SortByScore(proxy_stats,
                                       IF reset THEN proxies ELSE found)
                index == IF current_proxy_index >= Len(working_proxies)
                         THEN 0 ELSE current_proxy_index
            IN  /\ failed_proxies' = (IF reset THEN {} ELSE failed_proxies)
                /\ proxies' = (IF reset THEN working_proxies ELSE proxies)
                /\ current_proxy_index' = index + 1
                /\ proxy_call' = ProxyCall("get_next_proxy",
                                           working_proxies[index + 1])
    /\ UNCHANGED proxy_stats
    /\ UNCHANGED offProxies

\* mark_proxy_failed (lines 114-117); the counters go to the database and
\* not to proxy_stats.
mark_proxy_failed(proxy_url) ==
    /\ failed_proxies' = failed_proxies \cup {proxy_url}
    /\ proxy_call' = ProxyCall("mark_proxy_failed", proxy_url)
    /\ UNCHANGED <<proxies, current_proxy_index, proxy_stats>>
    /\ UNCHANGED offProxies

\* mark_proxy_success (lines 119-123).
mark_proxy_success(proxy_url) ==
    /\ failed_proxies' = failed_proxies \ {proxy_url}
    /\ proxy_call' = ProxyCall("mark_proxy_success", proxy_url)
    /\ UNCHANGED <<proxies, current_proxy_index, proxy_stats>>
    /\ UNCHANGED offProxies

NextProxies ==
    \/ \E q \in ProxyUrls : add_proxy(q)
    \/ \E q \in ProxyUrls : remove_proxy(q)
    \/ get_next_proxy
    \/ \E q \in ProxyUrls : mark_proxy_failed(q)
    \/ \E q \in ProxyUrls : mark_proxy_success(q)

\* A proxy manager with the counters of an earlier run in the database.
InitProxies ==
    /\ InitScheduler
    /\ observed = 0
    /\ InitDefaultLimiter
    /\ InitDefaultUrlManager
    /\ InitClient(FALSE)
    /\ NoAccountAge
    /\ \E loaded \in LoadedStats : InitProxyManager(loaded)

SpecProxies == InitProxies /\ [][NextProxies]_vars

\* ---------------------------------------------------------- the account age
\* An id is a Python value: its type and the characters of str(id).  An int
\* of Python has no width, so a parsed id is kept as its sign and its decimal
\* digits, the first one not 0 (no digit at all is 0).
DigitChars == <<"0", "1", "2", "3", "4", "5", "6", "7", "8", "9">>

\* str(user_id).replace(',', '') (line 194).
WithoutCommas(text) == SelectSeq(text, LAMBDA c : c # ",")

RECURSIVE StripZeros(_)
StripZeros(ds) ==
    IF ds # << >> /\ Head(ds) = 0 THEN StripZeros(Tail(ds)) ELSE ds

\* int(text) (line 194): an optional sign and one or more decimal digits;
\* anything else raises ValueError (ok is FALSE).
ParseInt(text) ==
    LET signed == text # << >> /\ Head(text) \in {"-", "+"}
        body == IF signed THEN Tail(text) ELSE text
        IsDigit(c) == \E d \in 1..10 : DigitChars[d] = c
        DigitValue(c) == (CHOOSE d \in 1..10 : DigitChars[d] = c) - 1
    IN  IF body = << >> \/ \E i \in 1..Len(body) : ~IsDigit(body[i])
        THEN [ok |-> FALSE, neg |-> FALSE, digits |-> << >>]
        ELSE LET ds == StripZeros([i \in 1..Len(body) |-> DigitValue(body[i])])
             IN  [ok |-> TRUE,
                  neg |-> (signed /\ Head(text) = "-" /\ ds # << >>),
                  digits |-> ds]

\* a <= b for two numbers without sign, given by their digits.
RECURSIVE LexLeq(_, _)
LexLeq(a, b) ==
    \/ a = << >>
    \/ Head(a) < Head(b)
    \/ Head(a) = Head(b) /\ LexLeq(Tail(a), Tail(b))

DigitsLeq(a, b) ==
    \/ Len(a) < Len(b)
    \/ Len(a) = Len(b) /\ LexLeq(a, b)

\* a <= b for two ints.
IntLeq(a, b) ==
    IF a.neg /\ b.neg THEN DigitsLeq(b.digits, a.digits)
    ELSE IF a.neg THEN TRUE
    ELSE IF b.neg THEN FALSE
    ELSE DigitsLeq(a.digits, b.digits)

Positive(ds) == [ok |-> TRUE, neg |-> FALSE, digits |-> ds]

\* The table of lines 196-212: the highest id of each year.
ranges ==
    << [upper |-> <<1,2,7,8,8,8,9>>,             year |-> 2010],
       [upper |-> <<1,7,7,5,0,0,0,0>>,           year |-> 2011],
       [upper |-> <<2,7,9,7,6,0,0,0,0>>,         year |-> 2012],
       [upper |-> <<9,0,0,9,9,0,0,0,0>>,         year |-> 2013],
       [upper |-> <<1,6,2,9,0,1,0,0,0,0>>,       year |-> 2014],
       [upper |-> <<2,3,6,9,3,5,9,7,6,1>>,       year |-> 2015],
       [upper |-> <<4,2,3,9,5,1,6,7,5,4>>,       year |-> 2016],
       [upper |-> <<6,3,4,5,1,0,8,2,0,9>>,       year |-> 2017],
       [upper |-> <<1,0,0,1,6,2,3,2,3,9,5>>,     year |-> 2018],
       [upper |-> <<2,7,2,3,8,6,0,2,1,5,9>>,     year |-> 2019],
       [upper |-> <<4,3,4,6,4,4,7,5,3,9,5>>,     year |-> 2020],
       [upper |-> <<5,0,2,8,9,2,9,7,6,4,7>>,     year |-> 2021],
       [upper |-> <<5,7,4,6,4,7,0,7,0,8,2>>,     year |-> 2022],
       [upper |-> <<6,3,3,1,3,4,2,6,9,3,8>>,     year |-> 2023],
       [upper |-> <<7,0,0,0,0,0,0,0,0,0,0>>,     year |-> 2024] >>

\* The test of line 215 with < : the highest id of a year falls into the next.
ReachedStrict(n, upper) ==
    IntLeq(n, Positive(upper)) /\ n # Positive(upper)

\* The test of line 215: user_id <= upper.
Reached(n, upper) == IntLeq(n, Positive(upper))

\* The string of lines 216-223 for a year: its wording, the age and the year
\* it names.
AgeOf(year, now) ==
    [text |-> IF now - year = 0 THEN "Created in"
              ELSE IF now - year = 1 THEN "1 year old"
              ELSE "years old",
     age |-> IF now - year = 0 THEN 0 ELSE now - year,
     year |-> year]

\* The for loop of lines 214-223 from the table's entry i on, and line 225
\* after it.
RECURSIVE ScanRanges(_, _, _)
ScanRanges(n, i, now) ==
    IF i > Len(ranges) THEN [text |-> "Created in", age |-> 0, year |-> 2024]
    ELSE IF Reached(n, ranges[i].upper) THEN AgeOf(ranges[i].year, now)
    ELSE ScanRanges(n, i + 1, now)

Unknown == [text |-> "Unknown", age |-> 0, year |-> 0]

\* calculate_account_age (lines 188-227) in the year now.
calculate_account_age(uid, now) ==
    IF uid.type \notin {"int", "str"} \/ uid.text = <<"N", "/", "A">>
    THEN Unknown
    ELSE LET n == ParseInt(WithoutCommas(uid.text))
         IN  IF ~n.ok THEN Unknown ELSE ScanRanges(n, 1, now)

\* The ids next to a number.
RECURSIVE Succ(_)
Succ(ds) ==
    IF ds = << >> THEN <<1>>
    ELSE IF ds[Len(ds)] < 9
    THEN [ds EXCEPT ![Len(ds)] = @ + 1]
    ELSE Append(Succ(SubSeq(ds, 1, Len(ds) - 1)), 0)

RECURSIVE Pred(_)
Pred(ds) ==
    IF ds[Len(ds)] > 0
    THEN StripZeros([ds EXCEPT ![Len(ds)] = @ - 1])
    ELSE LET hi == Pred(SubSeq(ds, 1, Len(ds) - 1))
         IN  IF hi = << >> THEN <<9>> ELSE Append(hi, 9)

\* str(n) of a number without sign, and the same with the thousands
\* separated by commas.
ToText(ds) ==
    IF ds = << >> THEN <<"0">>
    ELSE [i \in 1..Len(ds) |-> DigitChars[ds[i] + 1]]

RECURSIVE Grouped(_)
Grouped(text) ==
    IF Len(text) <= 3 THEN text
    ELSE Grouped(SubSeq(text, 1, Len(text) - 3)) \o <<",">>
            \o SubSeq(text, Len(text) - 2, Len(text))

\* The ids the function is called with: the highest id of every year, the
\* ids next to it, 0, 1 and ids beyond the table, each as a str, as a str
\* with commas, with a leading 0 or with a sign, and as an int; and values
\* that are no id.
IdNumbers ==
    UNION {{ranges[i].upper, Pred(ranges[i].upper), Succ(ranges[i].upper)} :
              i \in 1..Len(ranges)}
      \cup {<< >>, <<1>>, <<9,9,9,9,9,9,9,9,9,9,9,9>>}

UserIds ==
    {[type |-> "str", text |-> ToText(n)] : n \in IdNumbers}
      \cup {[type |-> "str", text |-> Grouped(ToText(n))] : n \in IdNumbers}
      \cup {[type |-> "str", text |-> <<"0">> \o ToText(n)] : n \in IdNumbers}
      \cup {[type |-> "str", text |-> <<"-">> \o ToText(n)] : n \in IdNumbers}
      \cup {[type |-> "int", text |-> ToText(n)] : n \in IdNumbers}
      \cup {[type |-> "int", text |-> <<"-">> \o ToText(n)] : n \in IdNumbers \ {<< >>}}
      \cup {[type |-> "float", text |-> ToText(n) \o <<".", "0">>] : n \in IdNumbers}
      \cup {[type |-> "str", text |-> ToText(n) \o <<".", "0">>] : n \in IdNumbers}
      \cup {[type |-> "NoneType", text |-> <<"N", "o", "n", "e">>],
            [type |-> "str", text |-> <<"N", "/", "A">>],
            [type |-> "str", text |-> << >>],
            [type |-> "str", text |-> <<",">>],
            [type |-> "str", text |-> <<"-">>],
            [type |-> "str", text |-> <<"1", "2", "x">>],
            [type |-> "int", text |-> <<"T", "r", "u", "e">>]}

\* The years in which the bot runs.
Years == {2024, 2025, 2026}

\* An alert or the info command shows the age of an account (lines 424 and
\* 473, and the bot's line 447).
AccountAgeField(uid) ==
    /\ user_id' = uid
    /\ account_age' = calculate_account_age(uid, current_year)
    /\ UNCHANGED current_year
    /\ UNCHANGED offAge

NextAge == \E uid \in UserIds : AccountAgeField(uid)

InitAge ==
    /\ InitScheduler
    /\ observed = 0
    /\ InitProxyManager(<< >>)
    /\ InitDefaultLimiter
    /\ InitDefaultUrlManager
    /\ InitClient(FALSE)
    /\ user_id = [type |-> "NoneType", text |-> << >>]
    /\ current_year \in Years
    /\ account_age = NotCalled

SpecAge == InitAge /\ [][NextAge]_vars

\* ------------------------------------------------- claims on the scheduler
Created(md) == md \in 1..Len(items)

\* No poll of the item is under way.
PollIdle(md) ==
    \A t \in DOMAIN loops : ~(loops[t].pc \in PollPcs /\ loops[t].cur = md)

\* C1: the notification callback is invoked exactly once per confirmed
\* transition: once the observed item has been polled with the result its
\* watch kind waits for, send_func has been called for it once, and before
\* that (and ever after) not at all or not again.
C1_AlertOncePerTransition ==
    (Created(observed) /\ PollIdle(observed))
        => alerts[observed] = (IF matched THEN 1 ELSE 0)

\* C2: a ban watch polled with exactly [present, present, absent] has fired
\* no alert after its first and second poll, and after its third poll has
\* fired one alert and is out of the queue.
C2_PresentPresentAbsent ==
    (Created(observed) /\ items[observed].monitor_type = "ban"
                       /\ PollIdle(observed))
        => /\ hist \in {1, 2} => alerts[observed] = 0
           /\ hist = Len(Scenario)
                 => alerts[observed] = 1 /\ ~InQueue(observed)

\* C3: at most one item per identity is queued: no two places of the queue
\* hold items whose usernames normalise to the same identity.
C3_OneItemPerIdentity ==
    \A i, j \in 1..Len(monitor_queue) :
        i # j => ApiNormalize(items[monitor_queue[i]].username)
                    # ApiNormalize(items[monitor_queue[j]].username)

LiveLoops == {t \in DOMAIN loops : loops[t].pc \notin EndPcs /\ ~loops[t].cancel}

\* The scheduler tasks that are inside a round of polls.
PollingLoops == {t \in DOMAIN loops : loops[t].pc \in {"round"} \cup PollPcs}

\* C7: at most one scheduler loop is running, and at most one is polling.
C7_OneSchedulerLoop ==
    /\ Cardinality(LiveLoops) <= 1
    /\ Cardinality(PollingLoops) <= 1

\* Two watches were started, the second while the scheduler ran or after a
\* cleanup, and a task cancelled by cleanup has ended beside a live one.
C7_Witness ==
    /\ Len(items) = 2
    /\ \E t, u \in DOMAIN loops : loops[t].pc = "cancelled" /\ u \in LiveLoops

C9_WindowAndBurstBound ==
    (requests_per_minute >= 1 /\ burst >= 1)
        => /\ Len(SelectSeq(admitted, LAMBDA a : a > clock - Window))
                 <= requests_per_minute
           /\ refill_admits <= burst

\* C10: no call of acquire has raised, whatever requests_per_minute and
\* burst are.
C10_NeverRaises == ~raised

\* ----------------------------------------------- claims on the url manager
Endpoints == DOMAIN url_stats

\* C11: an endpoint that has just had its third (or a later) consecutive
\* mark_failure, with no mark_success in between, is not active.
C11_ThreeFailuresDeactivate ==
    \A u \in Endpoints :
        (last_call.op = "mark_failure" /\ last_call.url = u
                                       /\ fail_streak[u] >= 3)
            => ~url_stats[u].is_active

\* The third consecutive failure of an endpoint that was active before it.
C11_Witness ==
    /\ last_call.op = "mark_failure"
    /\ last_call.url \in Endpoints
    /\ last_call.url \in last_call.active
    /\ fail_streak[last_call.url] = 3
    /\ ~url_stats[last_call.url].is_active

\* C12: a step of mark_success(u, t) for an endpoint u of the pool leaves u
\* active with consecutive_failures 0 and the counters and the flag of every
\* other endpoint as they were; a step of mark_success or mark_failure for a
\* url that is not in the pool leaves the manager's state as it was.
C12_MarkSuccessRestoresOnlyItsEndpoint ==
    [][ /\ (last_call'.op = "mark_success" /\ last_call'.url \in Endpoints)
            => /\ url_stats'[last_call'.url].is_active
               /\ url_stats'[last_call'.url].consecutive_failures = 0
               /\ \A v \in Endpoints \ {last_call'.url} :
                      url_stats'[v] = url_stats[v]
        /\ (last_call'.op \in {"mark_success", "mark_failure"}
                /\ last_call'.url \notin Endpoints)
            => /\ url_stats' = url_stats
               /\ current_index' = current_index
               /\ urls' = urls ]_vars

\* mark_success was called for a deactivated endpoint while the other
\* endpoint was deactivated too, and the other endpoint still is.
C12_Witness ==
    /\ last_call.op = "mark_success"
    /\ last_call.url \in Endpoints
    /\ last_call.active = {}
    /\ ActiveSet(url_stats) = {last_call.url}
    /\ Cardinality(Endpoints) = 2

\* C13: a step of get_next_url, under each of the three strategies, that
\* starts with no endpoint active leaves every endpoint active and returns an
\* endpoint of the pool (it does not raise).
C13_AllInactiveResetsPool ==
    [][ (last_call'.op = "get_next_url"
            /\ strategy \in {"round_robin", "random", "health_based"}
            /\ ActiveSet(url_stats) = {})
          => /\ ActiveSet(url_stats') = Endpoints
             /\ last_call'.url \in Endpoints ]_vars

\* get_next_url was called with both endpoints of a pool inactive.
C13_Witness ==
    /\ last_call.op = "get_next_url"
    /\ last_call.active = {}
    /\ strategy \in {"round_robin", "random", "health_based"}
    /\ Cardinality(Endpoints) = 2
    /\ last_call.url \in Endpoints

\* C14: whatever the strategy setting, the url get_next_url has just
\* returned is an endpoint of the pool that is active.
C14_ReturnsActiveEndpoint ==
    last_call.op = "get_next_url"
        => /\ last_call.url \in Endpoints
           /\ url_stats[last_call.url].is_active

\* C15: with the pool [A, B] and the health-based strategy, a step of
\* get_next_url that starts with A inactive and B active returns B, and one
\* that starts with both inactive leaves both active.
C15_FailoverToSecondEndpoint ==
    [][ (last_call'.op = "get_next_url" /\ strategy = "health_based"
                                        /\ Len(urls) = 2)
          => /\ ActiveSet(url_stats) = {urls[2]} => last_call'.url = urls[2]
             /\ ActiveSet(url_stats) = {} => ActiveSet(url_stats') = Endpoints
        ]_vars

\* A failed three times, and B was returned although it has failed twice
\* since.
C15_Witness ==
    /\ strategy = "health_based"
    /\ Len(urls) = 2
    /\ last_call.op = "get_next_url"
    /\ last_call.active = {urls[2]}
    /\ last_call.url = urls[2]
    /\ fail_streak[urls[1]] = 3
    /\ fail_streak[urls[2]] = 2

\* C16: every endpoint's consecutive_failures is at most 3, and that of an
\* active endpoint at most 2.
C16_ConsecutiveFailuresBounded ==
    \A u \in Endpoints :
        /\ url_stats[u].consecutive_failures <= 3
        /\ url_stats[u].is_active => url_stats[u].consecutive_failures <= 2

\* C17: the score of an endpoint without successes and failures is 0.5,
\* every score lies in [0, 0.7], and with the other counters as they are the
\* score does not grow with consecutive_failures.
C17_ScoreBounds ==
    \A u \in Endpoints :
        LET stats == url_stats[u]
            with(c) == [stats EXCEPT !.consecutive_failures = c]
        IN  /\ (stats.success_count + stats.failure_count = 0)
                  => 2 * calculate_score(stats) = ScoreUnit
            /\ calculate_score(stats) >= 0
            /\ 10 * calculate_score(stats) <= 7 * ScoreUnit
            /\ \A c \in 0..MaxFailure :
                  calculate_score(with(c + 1)) <= calculate_score(with(c))

\* One endpoint is untested; the other has successes and failures, and its
\* score is positive and falls with one more consecutive failure.
C17_Witness ==
    \E u, v \in Endpoints :
        /\ url_stats[u].success_count + url_stats[u].failure_count = 0
        /\ url_stats[v].success_count > 0
        /\ url_stats[v].consecutive_failures > 0
        /\ calculate_score(url_stats[v]) > 0
        /\ calculate_score([url_stats[v] EXCEPT !.consecutive_failures = @ + 1])
               < calculate_score(url_stats[v])

\* --------------------------------------------------- claims on the client
\* C18: an attempt made while consecutive_errors >= MAX_CONSECUTIVE_ERRORS
\* and the last error is less than ERROR_COOLDOWN seconds old gets the
\* cooldown response without a network call, and leaves burst_tokens, the
\* list of timestamps, the error counter and its timestamp as they were.
C18_CooldownFailsFast ==
    [][ (lookup.pc = "attempt" /\ lookup' # lookup
            /\ consecutive_errors >= MAX_CONSECUTIVE_ERRORS
            /\ last_error_time # -1
            /\ clock - last_error_time < ERROR_COOLDOWN)
          => /\ response'.cooldown /\ ~response'.network
             /\ ~response'.success /\ response'.status_code = 0
             /\ lookup'.pc \notin {"acquire", "network"}
             /\ burst_tokens' = burst_tokens
             /\ requests' = requests
             /\ consecutive_errors' = consecutive_errors
             /\ last_error_time' = last_error_time ]_vars

\* A request failed fast in a second cooldown: the first had run out, a
\* request went to the network again and raised the sixth error.
C18_Witness ==
    /\ response.cooldown
    /\ consecutive_errors > MAX_CONSECUTIVE_ERRORS
    /\ clock - last_error_time < ERROR_COOLDOWN
    /\ burst_tokens < RATE_LIMIT_BURST

\* C19: a request of a lookup that was answered with 404 is the lookup's
\* last, and the lookup has returned the verdict not_found.
C19_NotFoundIsTerminal ==
    \A i \in 1..Len(lookup.tried) :
        lookup.tried[i].status_code = 404
            => /\ i = Len(lookup.tried)
               /\ lookup.pc = "idle"
               /\ result.st = "not_found"

\* C20: with the health-based strategy and two endpoints, two attempts of a
\* lookup that follow one another go to different endpoints.
C20_RetryOnAnotherEndpoint ==
    (strategy = "health_based" /\ Cardinality(Endpoints) >= 2)
        => \A i \in 1..(Len(lookup.tried) - 1) :
               (lookup.tried[i].url \in Endpoints
                    /\ lookup.tried[i + 1].url \in Endpoints)
                 => lookup.tried[i + 1].url # lookup.tried[i].url

\* The requests of the current lookup that went to the scraped endpoints.
ScrapedTried == SelectSeq(lookup.tried, LAMBDA a : a.url # "graph")

\* C21: a lookup makes at most API_RETRY_ATTEMPTS requests on the scraped
\* path, a successful request is its last, and a lookup whose requests all
\* failed (none answered 404) has returned the failure of the last one.
C21_AtMostThreeAttempts ==
    /\ lookup.attempt <= API_RETRY_ATTEMPTS - 1
    /\ Len(ScrapedTried) <= API_RETRY_ATTEMPTS
    /\ \A i \in 1..Len(ScrapedTried) :
           ScrapedTried[i].success
               => /\ i = Len(ScrapedTried)
                  /\ lookup.pc = "idle"
                  /\ result.success
    /\ (Len(ScrapedTried) = API_RETRY_ATTEMPTS
            /\ ~ScrapedTried[API_RETRY_ATTEMPTS].success
            /\ ScrapedTried[API_RETRY_ATTEMPTS].status_code # 404)
         => /\ lookup.pc = "idle"
            /\ ~result.success
            /\ result.status_code = ScrapedTried[API_RETRY_ATTEMPTS].status_code

\* A lookup returned the HTTP 500 of its third request, after an exception
\* and an unparseable 200.
C21_Witness ==
    /\ lookup.pc = "idle"
    /\ Len(ScrapedTried) = API_RETRY_ATTEMPTS
    /\ ScrapedTried[1].status_code = 0
    /\ ScrapedTried[2].status_code = 200
    /\ ScrapedTried[3].status_code = 500
    /\ result = Returned("none", 500, FALSE)

\* The result get_instagram_profile returns for the scraped path once its
\* last request is a (lines 416-436).
ScrapedResult(a) ==
    /\ a.success => result.success
    /\ (~a.success /\ a.status_code = 404)
         => result = Returned("not_found", 404, TRUE)
    /\ (~a.success /\ a.status_code # 404)
         => result = Returned("none", a.status_code, FALSE)

\* C22: with the Graph API enabled the first request of a lookup, and no
\* other, goes to it; if it succeeded or was answered 404 or 400 the lookup
\* is over and has returned that response; if it failed in another way the
\* lookup goes on with the scraped endpoints and returns what their last
\* request gives.  Without the Graph API no request goes to it.
C22_GraphFirstThenScraped ==
    /\ \A i \in 1..Len(lookup.tried) :
           (lookup.tried[i].url = "graph") <=> (graph_enabled /\ i = 1)
    /\ (lookup.path = "graph" /\ lookup.tried # << >>)
         => /\ lookup.pc = "idle"
            /\ Len(lookup.tried) = 1
            /\ lookup.tried[1].success
                 \/ lookup.tried[1].status_code \in {404, 400}
            /\ result.success = lookup.tried[1].success
            /\ ~result.success => result.status_code = lookup.tried[1].status_code
    /\ (graph_enabled /\ lookup.path = "scraped" /\ lookup.tried # << >>)
         => /\ ~lookup.tried[1].success
            /\ lookup.tried[1].status_code \notin {404, 400}
    /\ (lookup.path = "scraped" /\ lookup.pc = "idle" /\ lookup.calls > 0)
         => /\ ScrapedTried # << >>
            /\ ScrapedResult(ScrapedTried[Len(ScrapedTried)])

\* The second lookup of a client ended on a 400 of the Graph API, after a
\* first one whose Graph API request was answered 500 had gone on to the
\* scraped endpoints
\* endpoints and succeeded there.
C22_Witness ==
    /\ graph_enabled
    /\ lookup.pc = "idle"
    /\ lookup.calls = 2
    /\ lookup.path = "graph"
    /\ lookup.tried[1].status_code = 400
    /\ result = Returned("none", 400, FALSE)
    /\ response.status_code = 400
    /\ \E u \in Endpoints : url_stats[u].success_count = 1

\* The counters of endpoint u are the same after the step, and u was not
\* deactivated by it.
StatsKept(u) ==
    /\ url_stats'[u].success_count = url_stats[u].success_count
    /\ url_stats'[u].failure_count = url_stats[u].failure_count
    /\ url_stats'[u].consecutive_failures = url_stats[u].consecutive_failures
    /\ url_stats[u].is_active => url_stats'[u].is_active

\* C28: an attempt that is answered in the cooldown, without a request,
\* changes no counter of any endpoint and deactivates none.
C28_CooldownLeavesStats ==
    [][ (lookup.pc = "attempt" /\ lookup' # lookup /\ is_in_cooldown(clock))
          => \A u \in Endpoints : StatsKept(u) ]_vars

\* C29: a request to a scraped endpoint that is answered 404 changes no
\* counter of that endpoint and does not deactivate it.
C29_NotFoundIsNoFailure ==
    [][ (lookup.pc = "network" /\ lookup.path = "scraped" /\ lookup' # lookup
            /\ response'.status_code = 404)
          => StatsKept(lookup.api_url) ]_vars

\* C30: a request answered 200 with a parsed body sets consecutive_errors to
\* 0, and a request that raised adds one to it and records the time.
C30_ErrorCounter ==
    [][ (lookup.pc = "network" /\ lookup' # lookup)
          => /\ (response'.status_code = 200 /\ response'.success)
                  => consecutive_errors' = 0
             /\ response'.status_code = 0
                  => /\ consecutive_errors' = consecutive_errors + 1
                     /\ last_error_time' = clock ]_vars

\* A parsed 200 has reset the counter after errors, and a later request has
\* raised again.
C30_Witness ==
    /\ consecutive_errors = 1
    /\ last_error_time = clock
    /\ response.status_code = 0 /\ response.network
    /\ \E u \in Endpoints : /\ url_stats[u].success_count > 0
                            /\ url_stats[u].failure_count > 1

\* C23: a poll that raises does not end the scheduler task: the task goes on
\* with the rest of its snapshot, or sleeps 60 s in the outer handler and
\* starts a new round; no task ever leaves the loop; and an item that is in
\* the queue is polled again (its poll raises and is counted) or removed.
C23_SchedulerSurvivesExceptions ==
    /\ [][ \A t \in 1..MaxLoops :
             (loops[t].pc = "round" /\ loops[t].snapshot # << >>
                 /\ loops'[t] # loops[t])
               => \/ /\ loops'[t].pc = "round"
                     /\ loops'[t].snapshot = Tail(loops[t].snapshot)
                  \/ loops'[t].pc \in PollPcs \cup {"sleep60"} ]_vars
    /\ [](\A t \in 1..MaxLoops : loops[t].pc \notin {"exited", "cancelled"})
    /\ [](is_sequential_running
            => \E t \in 1..MaxLoops : loops[t].pc \notin EndPcs)
    /\ \A md \in ItemIds, k \in 0..MAX_CONSECUTIVE_ERRORS :
           (Created(md) /\ InQueue(md) /\ items[md].consecutive_errors = k)
             ~> (~InQueue(md) \/ items[md].consecutive_errors > k)

\* The poll of the first item of a round has raised, and the task goes on
\* with the second item of its snapshot.
C23_Witness ==
    \E t \in 1..MaxLoops :
        /\ loops[t].pc = "round"
        /\ loops[t].snapshot = <<2>>
        /\ items[1].consecutive_errors = 2
        /\ items[2].consecutive_errors = 1
        /\ monitor_queue = <<1, 2>>

\* The usernames of the items in the queue.
QueuedUsernames ==
    {items[monitor_queue[i]].username : i \in 1..Len(monitor_queue)}

\* C24: whenever no task is in the middle of a step, the keys of
\* monitoring_tasks are the usernames of the items in monitor_queue.
C24_RegistryMatchesQueue ==
    NoTaskRunning => DOMAIN monitoring_tasks = QueuedUsernames

C27_VerdictResetsErrorCount ==
    (Created(observed) /\ PollIdle(observed)
        /\ last_poll.res \in {"ok", "not_found"})
      => items[observed].consecutive_errors = 0

\* C31: the session of an item is ended at most once, it is ended when the
\* item is out of the queue, and it is open while the item is in the queue.
C31_SessionEndedOnce ==
    NoTaskRunning
      => \A md \in ItemIds :
             Created(md)
               => /\ session_ends[md] <= 1
                  /\ (session_ends[md] = 1) <=> ~InQueue(md)

\* C32: the endpoint a health-based get_next_url returns is active, no
\* active endpoint has a higher score, and no active endpoint that comes
\* before it in the pool has the same score.
C32_HealthBasedReturnsBest ==
    [][ (last_call'.op = "get_next_url" /\ strategy = "health_based")
          => \E i \in 1..Len(urls) :
               /\ urls[i] = last_call'.url
               /\ url_stats'[urls[i]].is_active
               /\ \A j \in 1..Len(urls) :
                    url_stats'[urls[j]].is_active
                      => /\ calculate_score(url_stats'[urls[j]])
                              <= calculate_score(url_stats'[urls[i]])
                         /\ j < i => calculate_score(url_stats'[urls[j]])
                                        < calculate_score(url_stats'[urls[i]]) ]_vars

\* A health-based selection has returned the first endpoint of a pool of
\* two that were both active and had the same score, each after one success
\* and one failure.
C32_Witness ==
    /\ strategy = "health_based"
    /\ last_call.op = "get_next_url"
    /\ urls = <<"A", "B">>
    /\ last_call.active = {"A", "B"}
    /\ last_call.url = "A"
    /\ url_stats["A"].failure_count = 1 /\ url_stats["A"].success_count = 1
    /\ url_stats["B"].failure_count = 1 /\ url_stats["B"].success_count = 1
    /\ calculate_score(url_stats["A"]) = calculate_score(url_stats["B"])

\* C33: the item a step of start_monitoring creates has the sub-flag FALSE
\* for a ban watch and TRUE for an unban watch, check_count 0 and
\* consecutive_errors 0, and is the last of the queue.
C33_NewItemFields ==
    [][ Len(items') # Len(items)
          => LET md == Len(items') IN
               /\ md = Len(items) + 1
               /\ items'[md].monitor_type \in MonitorTypes
               /\ items'[md].is_banned_state = (items'[md].monitor_type = "unban")
               /\ items'[md].check_count = 0
               /\ items'[md].consecutive_errors = 0
               /\ monitor_queue' = Append(monitor_queue, md) ]_vars

\* A ban watch and an unban watch were created, the second just now, after
\* the first was polled.
C33_Witness ==
    /\ Len(items) = 2
    /\ items[1].monitor_type = "ban" /\ ~items[1].is_banned_state
    /\ items[1].consecutive_errors = 2
    /\ items[2].monitor_type = "unban" /\ items[2].is_banned_state
    /\ items[2].consecutive_errors = 0 /\ items[2].check_count = 0
    /\ monitor_queue = <<1, 2>>

\* C34: a step that takes a lookup from its attempt k to its attempt k + 1
\* lets API_RETRY_DELAY * 2^k seconds pass, and the step that ends a lookup
\* lets none pass.
C34_ExponentialBackoff ==
    [][ /\ (lookup.path = "scraped" /\ lookup'.path = "scraped"
               /\ lookup'.calls = lookup.calls
               /\ lookup'.attempt = lookup.attempt + 1)
             => clock' - clock = API_RETRY_DELAY * (2 ^ lookup.attempt)
        /\ (lookup.pc # "idle" /\ lookup'.pc = "idle")
             => clock' = clock ]_vars

\* The step is an admission: a call of acquire returns.
AdmissionStep == admitted' # admitted

\* The step leaves a caller of acquire suspended (lines 188 and 197).
WaitStep == \E c \in 1..NCallers : callers'[c] # callers[c] /\ callers'[c].pc = "sleep"

\* The invariants of the limiter's fields.
RateWindowBounds ==
    /\ 0 <= burst_tokens /\ burst_tokens <= burst
    /\ Len(requests) <= requests_per_minute

\* C35: in every state 0 <= burst_tokens <= burst and at most
\* requests_per_minute timestamps are recorded; every admission leaves
\* burst_tokens one below what it was before the call and the list one entry
\* longer, and a call that goes to wait changes neither.
C35_AdmissionTakesOneToken ==
    /\ []RateWindowBounds
    /\ [][AdmissionStep => /\ burst_tokens' = burst_tokens - 1
                           /\ Len(requests') = Len(requests) + 1]_vars
    /\ [][WaitStep => UNCHANGED <<burst_tokens, requests>>]_vars

\* C35 as the code has it: the bounds hold in every state; an admission
\* leaves burst_tokens one below its value after the refill of the same call
\* (burst - 1 when the call refills, one less than before otherwise) and
\* records the time on the list the refill left (empty when the call
\* refills); a call that goes to wait changes neither.
C35_AdmissionAfterRefill ==
    /\ []RateWindowBounds
    /\ [][AdmissionStep =>
             LET refill == clock - last_refill >= Window
             IN  /\ burst_tokens' = (IF refill THEN burst ELSE burst_tokens) - 1
                 /\ requests' = Append(IF refill THEN << >> ELSE requests, clock)]_vars
    /\ [][WaitStep => UNCHANGED <<burst_tokens, requests>>]_vars

\* A call refilled the limiter and was admitted, and another call waits.
C35_Witness ==
    /\ last_refill > 0
    /\ refill_admits = 1
    /\ requests = <<last_refill>>
    /\ burst_tokens = burst - 1
    /\ \E c \in 1..NCallers : callers[c].pc = "sleep"

\* The breaker has opened and ERROR_COOLDOWN seconds have passed since the
\* last recorded error.
CooldownOver ==
    /\ consecutive_errors >= MAX_CONSECUTIVE_ERRORS
    /\ last_error_time # -1
    /\ clock - last_error_time >= ERROR_COOLDOWN

\* C36: the breaker does not stay open.  A request made once ERROR_COOLDOWN
\* seconds have passed since the last recorded error is not answered with
\* the cooldown response: it goes to the limiter, whose wait ends in the
\* network call and in nothing else; and a request answered with a parsed
\* 200 leaves consecutive_errors at 0, so that the request after it is not
\* in the cooldown either.
C36_BreakerCloses ==
    /\ [][ (lookup.pc = "attempt" /\ lookup' # lookup /\ CooldownOver)
              => /\ lookup'.pc \in {"acquire", "network"}
                 /\ response' = response
                 /\ lookup'.tried = lookup.tried ]_vars
    /\ [][ (lookup.pc = "acquire" /\ lookup' # lookup /\ CooldownOver)
              => lookup'.pc \in {"acquire", "network"} ]_vars
    /\ [][ (lookup.pc = "network" /\ lookup' # lookup /\ response'.success)
              => /\ response'.network
                 /\ consecutive_errors' = 0
                 /\ ~is_in_cooldown(clock)' ]_vars

\* Five errors had opened the breaker, the cooldown ran out, and the next
\* request has passed the limiter and is on the network.
C36_Witness ==
    /\ lookup.pc = "network"
    /\ CooldownOver

\* C37: last_known_data is the profile of the last poll that found one: after
\* a poll of the observed item whose lookup gives a profile the item holds
\* it; a poll whose lookup gives anything else leaves last_known_data as it
\* was; and the ban alert of an item polled present, present, absent reports
\* last_known_data, the profile an earlier poll stored.
C37_LastKnownProfile ==
    /\ []((Created(observed) /\ PollIdle(observed) /\ last_poll.res = "ok")
              => items[observed].last_known_data)
    /\ [][ \A md \in 1..Len(items) :
               items'[md].last_known_data # items[md].last_known_data
                 => \E t \in DOMAIN loops :
                        /\ loops[t].pc \in PollPcs /\ loops[t].cur = md
                        /\ loops'[t].res = "ok" ]_vars
    /\ [][ \A md \in 1..Len(items) :
               (alerts'[md] # alerts[md] /\ items[md].monitor_type = "ban"
                    /\ md = observed /\ hist \in 1..Len(Scenario))
                 => items[md].last_known_data ]_vars

\* C38: calculate_account_age gives a numeric id the year of the first entry
\* of the table whose upper bound is >= the id (2013 for 900990000, 2014 for
\* 900990001) and 2024 for an id above the last bound; no id that is <= this
\* id gets a later year; an id that is not numeric gets "Unknown".  An id is
\* numeric when it is an int or a str that int() parses once the commas are
\* taken out.
C38_AccountAgeYear ==
    LET IdValue(uid) == ParseInt(WithoutCommas(uid.text))
        NumericId(uid) == /\ uid.type \in {"int", "str"}
                          /\ uid.text # <<"N", "/", "A">>
                          /\ IdValue(uid).ok
    IN
    account_age # NotCalled =>
        IF NumericId(user_id)
        THEN LET n == IdValue(user_id)
                 over == {i \in 1..Len(ranges) : IntLeq(n, Positive(ranges[i].upper))}
             IN  /\ account_age.year =
                       (IF over = {} THEN 2024
                        ELSE ranges[CHOOSE i \in over : \A k \in over : i <= k].year)
                 /\ n = Positive(<<9,0,0,9,9,0,0,0,0>>) => account_age.year = 2013
                 /\ n = Positive(<<9,0,0,9,9,0,0,0,1>>) => account_age.year = 2014
                 /\ \A v \in UserIds :
                       (NumericId(v) /\ IntLeq(IdValue(v), n))
                         => calculate_account_age(v, current_year).year
                              <= account_age.year
        ELSE account_age = Unknown

\* The age of the id "900,990,001" was computed: 2014.
C38_Witness ==
    /\ user_id = [type |-> "str",
                  text |-> <<"9","0","0",",","9","9","0",",","0","0","1">>]
    /\ account_age.year = 2014

\* C39: get_next_proxy returns None exactly when the pool is empty, and
\* otherwise a proxy of the pool; the proxy is not one that was marked failed
\* unless every proxy of the pool was, and in that case the failed set is
\* empty after the call.
C39_NextProxy ==
    LET PoolBefore == {proxy_call.pool[i] : i \in 1..Len(proxy_call.pool)} IN
    proxy_call.op = "get_next_proxy"
      => /\ (proxy_call.proxy = "None") <=> (proxy_call.pool = << >>)
         /\ proxy_call.pool # << >>
              => /\ proxy_call.proxy \in PoolBefore
                 /\ InPool(proxy_call.proxy)
                 /\ (PoolBefore \ proxy_call.failed # {})
                      => /\ proxy_call.proxy \notin proxy_call.failed
                         /\ failed_proxies = proxy_call.failed
                 /\ (PoolBefore \ proxy_call.failed = {})
                      => failed_proxies = {}

\* Every proxy of a pool of three was marked failed, with a url that is in
\* no pool marked too, and the call cleared the set and returned a proxy.
C39_Witness ==
    /\ proxy_call.op = "get_next_proxy"
    /\ Len(proxy_call.pool) = 3
    /\ proxy_call.failed = ProxyUrls
    /\ proxy_call.proxy \in ProxyUrls
    /\ failed_proxies = {}
    /\ current_proxy_index = 3

====
